---------------------------- MODULE Spec2Model ----------------------------
(***************************************************************************)
(* Model of the data ingestion layer of dashboard_moraes.py: the header    *)
(* locator, the two sheet loaders, the rendering pass that calls them, the *)
(* value parsers and col_exists, and the 60-second cache of the loaders.   *)
(*                                                                         *)
(* Cell texts are strings.  A table cell is an option: <<>> is the null    *)
(* that pandas stores (None / NaN), <<s>> is the text s.  A table is a     *)
(* record [columns, rows]; each row keeps the pandas index label it was    *)
(* created with (its position among the data rows of the grid).            *)
(***************************************************************************)
EXTENDS Integers, Sequences, FiniteSets, TLC

VARIABLES pc, calls, notices, df, source, cache, clock, page

vars == <<pc, calls, notices, df, source, cache, clock, page>>

\* the data source, the entries of st.cache_data and the time: they matter
\* only across rendering passes
outside == <<source, cache, clock>>

-----------------------------------------------------------------------------
(* Text helpers: str.lower(), str.strip(), the substring test `a in b`.    *)

UpperChars == "ABCDEFGHIJKLMNOPQRSTUVWXYZÁÉÍÓÚÑ"

LowerChars == "abcdefghijklmnopqrstuvwxyzáéíóúñ"

UpperSet == { SubSeq(UpperChars, i, i) : i \in 1..Len(UpperChars) }

LowerOf ==
    [ch \in UpperSet |->
        LET i == CHOOSE k \in 1..Len(UpperChars) : SubSeq(UpperChars, k, k) = ch
        IN  SubSeq(LowerChars, i, i)]

LowerChar(ch) == IF ch \in UpperSet THEN LowerOf[ch] ELSE ch

RECURSIVE Lower(_)
Lower(s) ==
    IF Len(s) = 0 THEN ""
    ELSE LowerChar(SubSeq(s, 1, 1)) \o Lower(SubSeq(s, 2, Len(s)))

LowerSet == { SubSeq(LowerChars, i, i) : i \in 1..Len(LowerChars) }

UpperOf ==
    [ch \in LowerSet |->
        LET i == CHOOSE k \in 1..Len(LowerChars) : SubSeq(LowerChars, k, k) = ch
        IN  SubSeq(UpperChars, i, i)]

UpperChar(ch) == IF ch \in LowerSet THEN UpperOf[ch] ELSE ch

RECURSIVE Upper(_)
Upper(s) ==
    IF Len(s) = 0 THEN ""
    ELSE UpperChar(SubSeq(s, 1, 1)) \o Upper(SubSeq(s, 2, Len(s)))

IsSpace(ch) == ch \in {" ", "\t"}

RECURSIVE LStrip(_)
LStrip(s) ==
    IF Len(s) > 0 /\ IsSpace(SubSeq(s, 1, 1))
    THEN LStrip(SubSeq(s, 2, Len(s)))
    ELSE s

RECURSIVE RStrip(_)
RStrip(s) ==
    IF Len(s) > 0 /\ IsSpace(SubSeq(s, Len(s), Len(s)))
    THEN RStrip(SubSeq(s, 1, Len(s) - 1))
    ELSE s

Strip(s) == RStrip(LStrip(s))

\* needle in hay
Contains(hay, needle) ==
    \E i \in 1..(Len(hay) - Len(needle) + 1) :
        SubSeq(hay, i, i + Len(needle) - 1) = needle

-----------------------------------------------------------------------------
(* Configuration.                                                          *)

SheetVendidos == "Vendidos"
SheetRentabilidad == "Modelo Unitario de Rentabilidad"
SheetPedidos == "Pedidos"
SheetProveedores == "proveedores"

\* EXPECTED_HEADERS.get(sheet_name, "Producto")
ExpectedHeader(sheet_name) ==
    IF sheet_name = SheetProveedores THEN "Proveedor" ELSE "Producto"

-----------------------------------------------------------------------------
(* Header locator.                                                         *)

\* the match without lower-casing
RowMatchesExact(row, marker) ==
    \E j \in 1..Len(row) : Contains(row[j], marker)

RowMatches(row, marker) ==
    \E j \in 1..Len(row) : Contains(Lower(row[j]), Lower(marker))

RECURSIVE FindFrom(_, _, _)
FindFrom(all_values, marker, idx) ==
    IF idx >= Len(all_values) THEN 0
    ELSE IF RowMatches(all_values[idx + 1], marker) THEN idx
    ELSE FindFrom(all_values, marker, idx + 1)

\* _find_header_row: 0-based index of the first row with a matching cell
FindHeaderRow(all_values, marker) == FindFrom(all_values, marker, 0)

-----------------------------------------------------------------------------
(* pandas pieces used by the loaders.                                      *)

None == <<>>

Some(s) == <<s>>

\* pd.DataFrame()
EmptyDF == [columns |-> <<>>, rows |-> <<>>]

RECURSIVE MaxWidth(_)
MaxWidth(data) ==
    IF Len(data) = 0 THEN 0
    ELSE LET w == MaxWidth(Tail(data))
         IN  IF Len(Head(data)) > w THEN Len(Head(data)) ELSE w

\* pd.DataFrame(data, columns=columns) raises unless the widest row has
\* exactly one cell per column name
FrameShapeOk(data, columns) == MaxWidth(data) = Len(columns)

\* pd.DataFrame(data, columns=columns): short rows are padded with null,
\* row i of data gets index label i (0-based)
NewFrame(data, columns) ==
    [columns |-> columns,
     rows    |-> [i \in 1..Len(data) |->
                    [label |-> i - 1,
                     cells |-> [j \in 1..Len(columns) |->
                                 IF j <= Len(data[i]) THEN Some(data[i][j])
                                 ELSE None]]]]

\* the kept elements, last first
RECURSIVE PickReversed(_, _, _)
PickReversed(s, keep, i) ==
    IF i > Len(s) THEN <<>>
    ELSE PickReversed(s, keep, i + 1) \o (IF i \in keep THEN <<s[i]>> ELSE <<>>)

\* the subsequence of s at the positions in keep
RECURSIVE Pick(_, _, _)
Pick(s, keep, i) ==
    IF i > Len(s) THEN <<>>
    ELSE (IF i \in keep THEN <<s[i]>> ELSE <<>>) \o Pick(s, keep, i + 1)

\* df.loc[:, df.columns.str.strip() != ""]
DropBlankColumns(t) ==
    LET keep == {j \in 1..Len(t.columns) : Strip(t.columns[j]) # ""}
    IN  [columns |-> Pick(t.columns, keep, 1),
         rows    |-> [i \in 1..Len(t.rows) |->
                        [label |-> t.rows[i].label,
                         cells |-> Pick(t.rows[i].cells, keep, 1)]]]

\* the renaming loop: seen maps a name to the number of repeats so far
RECURSIVE DedupLoop(_, _, _)
DedupLoop(cols, seen, new_cols) ==
    IF Len(cols) = 0 THEN new_cols
    ELSE LET c == Head(cols)
         IN  IF c \in DOMAIN seen
             THEN DedupLoop(Tail(cols),
                            [seen EXCEPT ![c] = seen[c] + 1],
                            Append(new_cols, c \o "_" \o ToString(seen[c] + 1)))
             ELSE DedupLoop(Tail(cols),
                            [n \in (DOMAIN seen) \cup {c} |->
                                 IF n = c THEN 0 ELSE seen[n]],
                            Append(new_cols, c))

\* the loop with the suffix taken before the counter is incremented
RECURSIVE DedupLoopStale(_, _, _)
DedupLoopStale(cols, seen, new_cols) ==
    IF Len(cols) = 0 THEN new_cols
    ELSE LET c == Head(cols)
         IN  IF c \in DOMAIN seen
             THEN DedupLoopStale(Tail(cols),
                                 [seen EXCEPT ![c] = seen[c] + 1],
                                 Append(new_cols, c \o "_" \o ToString(seen[c])))
             ELSE DedupLoopStale(Tail(cols),
                                 [n \in (DOMAIN seen) \cup {c} |->
                                      IF n = c THEN 0 ELSE seen[n]],
                                 Append(new_cols, c))

DedupStale(cols) == DedupLoopStale(cols, [n \in {} |-> 0], <<>>)

Dedup(cols) == DedupLoop(cols, [n \in {} |-> 0], <<>>)

StripAll(cols) == [j \in 1..Len(cols) |-> Strip(cols[j])]

\* df.replace("", None)
ReplaceEmpty(t) ==
    [columns |-> t.columns,
     rows    |-> [i \in 1..Len(t.rows) |->
                    [label |-> t.rows[i].label,
                     cells |-> [j \in 1..Len(t.rows[i].cells) |->
                                 IF t.rows[i].cells[j] = Some("") THEN None
                                 ELSE t.rows[i].cells[j]]]]]

AllNull(cells) == \A j \in 1..Len(cells) : cells[j] = None

\* dropna left out
KeepAllRows(t) == t

\* df.dropna(how="all")
DropAllNullRows(t) ==
    LET keep == {i \in 1..Len(t.rows) : ~AllNull(t.rows[i].cells)}
    IN  [columns |-> t.columns, rows |-> Pick(t.rows, keep, 1)]

\* df.empty: no rows or no columns
IsEmptyDF(t) == Len(t.rows) = 0 \/ Len(t.columns) = 0

-----------------------------------------------------------------------------
(* The data source.  A call's fetch (get_gspread_client, open, worksheet,  *)
(* get_all_values) ends in one of these ways.                              *)

Outcomes == {"ok", "WorksheetNotFound", "SpreadsheetNotFound", "Exception",
             "NoCredentials"}

Notice(level, by, what) == [level |-> level, by |-> by, what |-> what]

-----------------------------------------------------------------------------
(* load_sheet.                                                             *)

\* the normalisation with the renaming loop run before the blank columns
\* are dropped
NormalizeSheetDedupFirst(headers, data) ==
    LET t0 == NewFrame(data, headers)
        t1 == DropBlankColumns([t0 EXCEPT !.columns = Dedup(StripAll(t0.columns))])
    IN  DropAllNullRows(ReplaceEmpty(t1))

\* lines 385-398, once data is known to be non-empty
NormalizeSheet(headers, data) ==
    LET t1 == DropBlankColumns(NewFrame(data, headers))
        t2 == [t1 EXCEPT !.columns = Dedup(StripAll(t1.columns))]
    IN  DropAllNullRows(ReplaceEmpty(t2))

\* The result of one call: the path taken, the located header row (-1 when
\* the locator was not reached), the returned tables (<<>> when the call does
\* not return), the notices emitted, and whether st.stop() ended the pass.
Result(path, h, ret, em, stop) ==
    [path |-> path, header_idx |-> h, ret |-> ret, emitted |-> em, stop |-> stop]

\* get_gspread_client without credentials: st.error, then st.stop(), whose
\* exception no except clause of the loaders catches
NoCredentials ==
    Result("no_credentials", -1, <<>>,
           <<Notice("error", "get_gspread_client", "no_credentials")>>, TRUE)

\* the except clauses with st.stop() missing from the spreadsheet clause
LoadSheetExceptNoStop(exc, path, h) ==
    IF exc = "WorksheetNotFound"
    THEN Result("worksheet_not_found", h, <<EmptyDF>>,
                <<Notice("warning", "load_sheet", "worksheet_not_found")>>, FALSE)
    ELSE Result(path, h, <<EmptyDF>>,
                <<Notice("error", "load_sheet", "exception")>>, FALSE)

\* the except clauses with every clause ending the pass
LoadSheetExceptAllStop(exc, path, h) ==
    Result(path, h, <<>>, <<Notice("error", "load_sheet", "exception")>>, TRUE)

\* the except clauses of load_sheet, for an exception raised in its try body
LoadSheetExcept(exc, path, h) ==
    CASE exc = "WorksheetNotFound" ->
            Result("worksheet_not_found", h, <<EmptyDF>>,
                   <<Notice("warning", "load_sheet", "worksheet_not_found")>>, FALSE)
      [] exc = "SpreadsheetNotFound" ->
            Result("spreadsheet_not_found", h, <<>>,
                   <<Notice("error", "load_sheet", "spreadsheet_not_found")>>, TRUE)
      [] OTHER ->
            Result(path, h, <<EmptyDF>>,
                   <<Notice("error", "load_sheet", "exception")>>, FALSE)

\* the slice taken from the header row on
DataRowsWithHeader(all_values, header_idx) ==
    SubSeq(all_values, header_idx + 1, Len(all_values))

\* data = all_values[header_idx + 1:]
DataRows(all_values, header_idx) ==
    SubSeq(all_values, header_idx + 2, Len(all_values))

LoadSheet(sheet_name, outcome, all_values) ==
    CASE outcome = "NoCredentials" -> NoCredentials
      [] outcome \in {"WorksheetNotFound", "SpreadsheetNotFound", "Exception"} ->
            LoadSheetExcept(outcome, "exception", -1)
      [] OTHER ->
            IF Len(all_values) = 0 THEN Result("empty_grid", -1, <<EmptyDF>>, <<>>, FALSE)
            ELSE LET header_idx == FindHeaderRow(all_values, ExpectedHeader(sheet_name))
                     headers == all_values[header_idx + 1]
                     data == DataRows(all_values, header_idx)
                 IN  IF Len(data) = 0
                     THEN Result("no_data", header_idx, <<EmptyDF>>, <<>>, FALSE)
                     ELSE IF ~FrameShapeOk(data, headers)
                     THEN LoadSheetExcept("ValueError", "build_exception", header_idx)
                     ELSE Result("normal", header_idx,
                                 <<NormalizeSheet(headers, data)>>, <<>>, FALSE)

-----------------------------------------------------------------------------
(* load_vendidos_tables.                                                   *)

\* v_idx = range(1, 9), g_idx = range(13, 21): 0-based, stop excluded
V_START == 1
V_STOP == 9
G_START == 13
G_STOP == 21

\* [headers[i].strip() for i in idx if i < len(headers)]
WindowHeaders(headers, start, stop) ==
    LET last == IF Len(headers) < stop THEN Len(headers) ELSE stop
    IN  [k \in 1..(IF last > start THEN last - start ELSE 0) |->
            Strip(headers[start + k])]

\* both blocks cut from the sales window
WindowDataSales(data, start, stop) ==
    [r \in 1..Len(data) |->
        [k \in 1..(stop - start) |->
            IF V_START + k <= Len(data[r]) THEN data[r][V_START + k] ELSE ""]]

\* [[row[i] if i < len(row) else "" for i in idx] for row in data]
WindowData(data, start, stop) ==
    [r \in 1..Len(data) |->
        [k \in 1..(stop - start) |->
            IF start + k <= Len(data[r]) THEN data[r][start + k] ELSE ""]]

\* df.dropna(subset=[name]): a row goes when any column called name is null
DropNullIn(t, name) ==
    LET keep == {i \in 1..Len(t.rows) :
                    \A j \in 1..Len(t.columns) :
                       t.columns[j] = name => t.rows[i].cells[j] # None}
    IN  [columns |-> t.columns, rows |-> Pick(t.rows, keep, 1)]

\* df[name] is a single column only when one column has that name
IsSingleColumn(t, name) ==
    Cardinality({j \in 1..Len(t.columns) : t.columns[j] = name}) = 1

ColumnPos(t, name) == CHOOSE j \in 1..Len(t.columns) : t.columns[j] = name

\* df_v[~df_v[fc].str.strip().str.lower().isin(["total", ""])]
DropTotals(t, fc) ==
    LET j == ColumnPos(t, fc)
        keep == {i \in 1..Len(t.rows) :
                    Lower(Strip(t.rows[i].cells[j][1])) \notin {"total", ""}}
    IN  [columns |-> t.columns, rows |-> Pick(t.rows, keep, 1)]

\* df_g[df_g[fg].str.strip() != ""]
DropBlankKey(t, fg) ==
    LET j == ColumnPos(t, fg)
        keep == {i \in 1..Len(t.rows) : Strip(t.rows[i].cells[j][1]) # ""}
    IN  [columns |-> t.columns, rows |-> Pick(t.rows, keep, 1)]

\* a block with an except clause of its own: a statement that raises leaves
\* the block empty and the other block untouched
BlockEmptyOnError(headers, data, start, stop, sales) ==
    LET h == WindowHeaders(headers, start, stop)
        d == WindowData(data, start, stop)
    IN  IF ~FrameShapeOk(d, h) THEN [ok |-> TRUE, t |-> EmptyDF]
        ELSE LET t0 == ReplaceEmpty(NewFrame(d, h))
                 fc == IF Len(t0.columns) > 0 THEN t0.columns[1] ELSE ""
             IN  IF fc = "" THEN [ok |-> TRUE, t |-> t0]
                 ELSE LET t1 == DropNullIn(t0, fc)
                      IN  IF ~IsSingleColumn(t1, fc)
                          THEN [ok |-> TRUE, t |-> EmptyDF]
                          ELSE [ok |-> TRUE,
                                t  |-> IF sales THEN DropTotals(t1, fc)
                                       ELSE DropBlankKey(t1, fc)]

\* One block, lines 425-432 (sales) or 435-442 (expenses), before renaming:
\* [ok, t]; ok is FALSE when a statement of the block raises.
Block(headers, data, start, stop, sales) ==
    LET h == WindowHeaders(headers, start, stop)
        d == WindowData(data, start, stop)
    IN  IF ~FrameShapeOk(d, h) THEN [ok |-> FALSE, t |-> EmptyDF]
        ELSE LET t0 == ReplaceEmpty(NewFrame(d, h))
                 fc == IF Len(t0.columns) > 0 THEN t0.columns[1] ELSE ""
             IN  IF fc = "" THEN [ok |-> TRUE, t |-> t0]
                 ELSE LET t1 == DropNullIn(t0, fc)
                      IN  IF ~IsSingleColumn(t1, fc)
                          THEN [ok |-> FALSE, t |-> EmptyDF]
                          ELSE [ok |-> TRUE,
                                t  |-> IF sales THEN DropTotals(t1, fc)
                                       ELSE DropBlankKey(t1, fc)]

\* one renaming loop over the columns of both blocks together
RenameBlocksShared(v, g) ==
    LET all == Dedup(v.columns \o g.columns)
    IN  << [v EXCEPT !.columns = SubSeq(all, 1, Len(v.columns))],
           [g EXCEPT !.columns = SubSeq(all, Len(v.columns) + 1, Len(all))] >>

\* for df in [df_v, df_g]: the renaming loop, with a fresh seen per table
RenameBlocks(v, g) ==
    << [v EXCEPT !.columns = Dedup(v.columns)],
       [g EXCEPT !.columns = Dedup(g.columns)] >>

\* except Exception of load_vendidos_tables
LoadVendidosExcept(path, h) ==
    Result(path, h, <<EmptyDF, EmptyDF>>,
           <<Notice("error", "load_vendidos_tables", "exception")>>, FALSE)

LoadVendidosTables(outcome, all_values) ==
    CASE outcome = "NoCredentials" -> NoCredentials
      [] outcome \in {"WorksheetNotFound", "SpreadsheetNotFound", "Exception"} ->
            LoadVendidosExcept("exception", -1)
      [] OTHER ->
            IF Len(all_values) = 0
            THEN Result("empty_grid", -1, <<EmptyDF, EmptyDF>>, <<>>, FALSE)
            ELSE LET header_idx == FindHeaderRow(all_values, "Producto")
                     headers == all_values[header_idx + 1]
                     data == DataRows(all_values, header_idx)
                 IN  IF Len(data) = 0
                     THEN Result("no_data", header_idx, <<EmptyDF, EmptyDF>>, <<>>, FALSE)
                     ELSE LET v == Block(headers, data, V_START, V_STOP, TRUE)
                              g == Block(headers, data, G_START, G_STOP, FALSE)
                          IN  IF ~v.ok \/ ~g.ok
                              THEN LoadVendidosExcept("build_exception", header_idx)
                              ELSE Result("normal", header_idx,
                                          RenameBlocks(v.t, g.t), <<>>, FALSE)

-----------------------------------------------------------------------------
(* Value parsers.  A float is modelled by its exact decimal value num/den  *)
(* (den a power of ten, the fraction in lowest decimal terms), or is nan   *)
(* or an infinity; the rounding of binary floating point is not modelled.  *)

Digits == "0123456789"

DigitSet == { SubSeq(Digits, i, i) : i \in 1..Len(Digits) }

DigitVal ==
    [ch \in DigitSet |->
        (CHOOSE k \in 1..Len(Digits) : SubSeq(Digits, k, k) = ch) - 1]

RECURSIVE Pow10(_)
Pow10(n) == IF n <= 0 THEN 1 ELSE 10 * Pow10(n - 1)

Abs(n) == IF n < 0 THEN 0 - n ELSE n

RECURSIVE Norm(_, _)
Norm(num, den) ==
    IF num = 0 THEN [kind |-> "num", num |-> 0, den |-> 1]
    ELSE IF num % 10 = 0 /\ den % 10 = 0 THEN Norm(num \div 10, den \div 10)
    ELSE [kind |-> "num", num |-> num, den |-> den]

Zero == Norm(0, 1)

NaN == [kind |-> "nan", num |-> 0, den |-> 1]

Inf(sign) == [kind |-> "inf", num |-> sign, den |-> 1]

\* the ValueError of float()
NotAFloat == [kind |-> "error", num |-> 0, den |-> 1]

\* re.sub(r'[...]', '', s) and s.replace(ch, ''): every character of drop goes
RECURSIVE RemoveChars(_, _)
RemoveChars(s, drop) ==
    IF Len(s) = 0 THEN ""
    ELSE (IF SubSeq(s, 1, 1) \in drop THEN "" ELSE SubSeq(s, 1, 1))
            \o RemoveChars(SubSeq(s, 2, Len(s)), drop)

\* digits, with single underscores allowed between two digits
IsDigitGroup(s) ==
    /\ Len(s) > 0
    /\ \A i \in 1..Len(s) : SubSeq(s, i, i) \in DigitSet \cup {"_"}
    /\ SubSeq(s, 1, 1) # "_" /\ SubSeq(s, Len(s), Len(s)) # "_"
    /\ \A i \in 1..(Len(s) - 1) : SubSeq(s, i, i + 1) # "__"

RECURSIVE IntOf(_, _)
IntOf(s, acc) ==
    IF Len(s) = 0 THEN acc
    ELSE IntOf(SubSeq(s, 2, Len(s)), 10 * acc + DigitVal[SubSeq(s, 1, 1)])

\* the position of the first character of s that is in chars, 0 if none
FirstOf(s, chars) ==
    IF \E i \in 1..Len(s) : SubSeq(s, i, i) \in chars
    THEN CHOOSE i \in 1..Len(s) :
            /\ SubSeq(s, i, i) \in chars
            /\ \A k \in 1..(i - 1) : SubSeq(s, k, k) \notin chars
    ELSE 0

HasSign(s) == Len(s) > 0 /\ SubSeq(s, 1, 1) \in {"+", "-"}

SignOf(s) == IF Len(s) > 0 /\ SubSeq(s, 1, 1) = "-" THEN 0 - 1 ELSE 1

Unsigned(s) == IF HasSign(s) THEN SubSeq(s, 2, Len(s)) ELSE s

\* float(s) for the unsigned decimal text body: [sign] digits [. digits]
\* [e [sign] digits]
FloatDecimal(sign, body) ==
    LET e == FirstOf(body, {"e", "E"})
        mant == IF e = 0 THEN body ELSE SubSeq(body, 1, e - 1)
        expo == IF e = 0 THEN "" ELSE SubSeq(body, e + 1, Len(body))
        dot == FirstOf(mant, {"."})
        int == IF dot = 0 THEN mant ELSE SubSeq(mant, 1, dot - 1)
        frac == IF dot = 0 THEN "" ELSE SubSeq(mant, dot + 1, Len(mant))
        mant_ok == /\ int = "" \/ IsDigitGroup(int)
                   /\ frac = "" \/ IsDigitGroup(frac)
                   /\ int # "" \/ frac # ""
        expo_ok == e = 0 \/ IsDigitGroup(Unsigned(expo))
    IN  IF ~(mant_ok /\ expo_ok) THEN NotAFloat
        ELSE LET fd == RemoveChars(frac, {"_"})
                 n == IntOf(RemoveChars(int, {"_"}) \o fd, 0)
                 x == IF e = 0 THEN 0
                      ELSE SignOf(expo) * IntOf(RemoveChars(Unsigned(expo), {"_"}), 0)
                 p == x - Len(fd)
             IN  IF p >= 0 THEN Norm(sign * n * Pow10(p), 1)
                 ELSE Norm(sign * n, Pow10(0 - p))

\* float(s) of Python
Float(s) ==
    LET t == Strip(s)
        body == Unsigned(t)
    IN  IF Lower(body) \in {"inf", "infinity"} THEN Inf(SignOf(t))
        ELSE IF Lower(body) = "nan" THEN NaN
        ELSE FloatDecimal(SignOf(t), body)

\* _clean_currency
CleanCurrency(val) ==
    IF val = None THEN Zero
    ELSE LET s == RemoveChars(RemoveChars(Strip(val[1]), {"$", " "}), {","})
             r == Float(s)
         IN  IF r.kind = "error" THEN Zero ELSE r

\* abs(v) > 5; false for nan
AbsOver5(v) ==
    CASE v.kind = "num" -> Abs(v.num) > 5 * v.den
      [] v.kind = "inf" -> TRUE
      [] OTHER -> FALSE

\* v / 100
Div100(v) == IF v.kind = "num" THEN Norm(v.num, v.den * 100) ELSE v

\* _clean_pct with the magnitude test abs(v) >= 5
CleanPctInclusive(val) ==
    IF val = None THEN Zero
    ELSE LET v == Float(RemoveChars(Strip(val[1]), {"%"}))
         IN  IF v.kind = "error" THEN Zero
             ELSE IF AbsOver5(v) \/ (v.kind = "num" /\ Abs(v.num) = 5 * v.den)
             THEN Div100(v) ELSE v

\* _clean_pct
CleanPct(val) ==
    IF val = None THEN Zero
    ELSE LET v == Float(RemoveChars(Strip(val[1]), {"%"}))
         IN  IF v.kind = "error" THEN Zero
             ELSE IF AbsOver5(v) THEN Div100(v) ELSE v

-----------------------------------------------------------------------------
(* pd.to_datetime(column, errors="coerce", dayfirst=True), cell by cell:   *)
(* numeric dates (day first, with the swap pandas makes when only the      *)
(* month-first reading is a date), ISO dates, and the month names the      *)
(* parser knows, which are the English ones.  The script has no month      *)
(* table of its own.                                                       *)

\* NaT
NaT == <<>>

Date(y, m, d) == <<[year |-> y, month |-> m, day |-> d]>>

\* str.split(): the maximal runs of non-space characters
RECURSIVE SplitFrom(_, _, _)
SplitFrom(s, word, acc) ==
    IF Len(s) = 0 THEN (IF word = "" THEN acc ELSE Append(acc, word))
    ELSE IF IsSpace(SubSeq(s, 1, 1))
    THEN SplitFrom(SubSeq(s, 2, Len(s)), "", IF word = "" THEN acc ELSE Append(acc, word))
    ELSE SplitFrom(SubSeq(s, 2, Len(s)), word \o SubSeq(s, 1, 1), acc)

Split(s) == SplitFrom(s, "", <<>>)

\* the pieces of s between occurrences of the characters of seps
RECURSIVE Pieces(_, _, _, _)
Pieces(s, seps, piece, acc) ==
    IF Len(s) = 0 THEN Append(acc, piece)
    ELSE IF SubSeq(s, 1, 1) \in seps
    THEN Pieces(SubSeq(s, 2, Len(s)), seps, "", Append(acc, piece))
    ELSE Pieces(SubSeq(s, 2, Len(s)), seps, piece \o SubSeq(s, 1, 1), acc)

AllDigits(s) ==
    Len(s) > 0 /\ \A i \in 1..Len(s) : SubSeq(s, i, i) \in DigitSet

IsLeap(y) == (y % 4 = 0 /\ y % 100 # 0) \/ y % 400 = 0

DaysIn(m, y) ==
    CASE m \in {4, 6, 9, 11} -> 30
      [] m = 2 -> (IF IsLeap(y) THEN 29 ELSE 28)
      [] OTHER -> 31

IsDate(y, m, d) == m \in 1..12 /\ d \in 1..DaysIn(m, y)

\* the month names of the date parser
ParserMonths ==
    << {"jan", "january"}, {"feb", "february"}, {"mar", "march"},
       {"apr", "april"}, {"may"}, {"jun", "june"}, {"jul", "july"},
       {"aug", "august"}, {"sep", "sept", "september"}, {"oct", "october"},
       {"nov", "november"}, {"dec", "december"} >>

\* a numeric date a/b/c or a-b-c: year first when a has four digits,
\* otherwise day first, month first when only that reading is a date
NumericDate(parts) ==
    LET a == IntOf(parts[1], 0)
        b == IntOf(parts[2], 0)
        c == IntOf(parts[3], 0)
    IN  IF Len(parts[1]) = 4
        THEN (IF IsDate(a, b, c) THEN Date(a, b, c) ELSE NaT)
        ELSE IF Len(parts[3]) # 4 THEN NaT
        ELSE IF IsDate(c, b, a) THEN Date(c, b, a)
        ELSE IF IsDate(c, a, b) THEN Date(c, a, b)
        ELSE NaT

\* pd.to_datetime of one cell
ToDatetime(val) ==
    IF val = None THEN NaT
    ELSE LET words == Split(val[1])
             parts == IF Len(words) = 1 THEN Pieces(words[1], {"/", "-"}, "", <<>>)
                      ELSE <<>>
         IN  IF Len(parts) = 3 /\ \A k \in 1..3 : AllDigits(parts[k]) /\ Len(parts[k]) <= 4
             THEN NumericDate(parts)
             ELSE IF /\ Len(words) = 2
                     /\ \E m \in 1..12 : Lower(words[1]) \in ParserMonths[m]
                     /\ AllDigits(words[2]) /\ Len(words[2]) = 4
             THEN Date(IntOf(words[2], 0),
                       CHOOSE m \in 1..12 : Lower(words[1]) \in ParserMonths[m], 1)
             ELSE NaT

-----------------------------------------------------------------------------
(* col_exists.                                                             *)

\* the scan keeping the last match instead of returning at the first
RECURSIVE ColExistsLast(_, _)
ColExistsLast(columns, col) ==
    IF Len(columns) = 0 THEN None
    ELSE IF Contains(Lower(columns[Len(columns)]), Lower(col))
    THEN Some(columns[Len(columns)])
    ELSE ColExistsLast(SubSeq(columns, 1, Len(columns) - 1), col)

\* col_exists(df, col), columns being df.columns
RECURSIVE ColExists(_, _)
ColExists(columns, col) ==
    IF Len(columns) = 0 THEN None
    ELSE IF Contains(Lower(Head(columns)), Lower(col)) THEN Some(Head(columns))
    ELSE ColExists(Tail(columns), col)

-----------------------------------------------------------------------------
(* Inputs: the grids the data source may hand to a loader.                 *)

MaxRows == 3

RECURSIVE Pad(_, _)
Pad(row, n) == IF Len(row) >= n THEN row ELSE Pad(Append(row, ""), n)

\* a row of the Vendidos sheet: column 0, the sales block in columns 1-8,
\* four unused columns, the expenses block in columns 13-20
Wide(left, right) ==
    Pad(<<"">>, V_START) \o Pad(left, V_STOP - V_START)
        \o Pad(<<>>, G_START - V_STOP) \o Pad(right, G_STOP - G_START)

EndToEndGrid ==
    << <<"", "", "">>,
       <<"Producto", "Categoría", "Categoría">>,
       <<"Widget", "A", "B">>,
       <<"Total", "", "">>,
       <<"", "", "">> >>

\* a sheet with a title row and two spacer rows above its header
OffsetGrid ==
    << <<"Finanzas MORAES", "", "">>,
       <<"", "", "">>,
       <<"", "", "">>,
       <<"producto", "Proveedor", " Tipo ">>,
       <<"Widget", "Acme", "">> >>

SheetRows ==
    { <<"", "", "">>,
      <<"Producto", "Categoría", "Categoría">>,
      <<"Widget", "A", "B">>,
      <<"Total", "", "">>,
      <<"A", "A_1", "A">>,
      <<"Widget">>,
      <<" A", "", "A ">>,
      <<"x", "PRODUCTOS", " ">>,
      <<"Proveedor", "Proveedor", "Proveedor">>,
      <<"w", "x", "y", "z">> }

VendidosHeaderLeft ==
    <<"Producto", "Categoría", "Fecha de Venta", "Cantidad Vendida",
      "Precio Unitario (USD)", "Ingreso Total (USD)", "Método de Pago", "Notas">>

VendidosHeaderRight ==
    <<"Descripción del Costo", "Categoría", "Fecha de Pago", "Monto (USD)",
      "¿Pagado?", "Proveedor", "Producto", "Notas">>

VendidosRows ==
    { Wide(VendidosHeaderLeft, VendidosHeaderRight),
      Wide(<<"Producto", "A", "A_1", "A", "B", "", " ", "B">>,
           <<"", "Monto", "Monto">>),
      Wide(<<"Producto", "Producto">>, VendidosHeaderRight),
      <<"", "Producto", "Categoría">>,
      Pad(<<"", "Producto", "Categoría">>, V_STOP),
      Wide(<<"Widget", "A", "01/02/2024", "2", "$10.00", "$20.00">>,
           <<"Flete", "Envío", "03/02/2024", "$5.00", "Sí">>),
      Wide(<<"Total", "", "", "2", "", "$20.00">>, <<"Total", "", "", "$5.00">>),
      Wide(<<" ", "B">>, <<"", "Envío">>),
      <<"", "Gadget", "B">>,
      Wide(<<" total", "", "", "2">>,
           <<"Flete", "Envío", "03/02/2024", "$5.00", "Sí">>),
      Wide(<<"Widget", "A", "01/02/2024", "2", "$10.00", "$20.00">>, <<" ">>),
      Wide(<<>>, <<>>) }

\* a Vendidos sheet whose two blocks drop different rows
VendidosSampleGrid ==
    << Wide(VendidosHeaderLeft, VendidosHeaderRight),
       Wide(<<"Widget", "A", "01/02/2024", "2", "$10.00", "$20.00">>,
            <<"Flete", "Envío", "03/02/2024", "$5.00", "Sí">>),
       Wide(<<" TOTAL ", "", "", "2", "", "$20.00">>, <<"Total", "", "", "$5.00">>),
       Wide(<<" ", "B">>, <<"Aduana", "Envío">>),
       Wide(<<"Gadget", "B">>, <<" ", "Envío">>) >>

GridsOf(rows) == UNION { [1..n -> rows] : n \in 0..MaxRows }

SheetGrids == GridsOf(SheetRows) \cup {EndToEndGrid, OffsetGrid}

VendidosGrids == GridsOf(VendidosRows) \cup {EndToEndGrid, VendidosSampleGrid}

\* the sheets load_sheet is called with
SheetNames == {SheetRentabilidad, SheetPedidos, SheetProveedores}

-----------------------------------------------------------------------------
(* State.  calls is the log of loader calls of the pass, notices the       *)
(* st.warning / st.error messages shown so far, df the module-level table  *)
(* variables (<<>> while unassigned).  Within one pass every call is taken *)
(* to fetch (no cache hit); source, cache and clock stay as they are.      *)
(* page is <<>> until the sidebar and the tabs have run, and then holds the *)
(* widget values of the pass and what the tabs computed from them.         *)

DfNames == {"df_vendidos", "df_gastos_vendidos", "df_rentabilidad",
            "df_pedidos", "df_proveedores"}

Call(fn, sheet, outcome, all_values, r) ==
    [fn |-> fn, sheet |-> sheet, outcome |-> outcome,
     all_values |-> IF outcome = "ok" THEN all_values ELSE <<>>,
     path |-> r.path, header_idx |-> r.header_idx, ret |-> r.ret,
     emitted |-> r.emitted, stop |-> r.stop]

Init ==
    /\ pc = "load_vendidos"
    /\ calls = <<>>
    /\ notices = <<>>
    /\ df = [n \in DfNames |-> <<>>]
    /\ source = <<>> /\ cache = <<>> /\ clock = 0
    /\ page = <<>>

\* one call of load_vendidos_tables and the assignment of its pair
CallVendidos(grids, next) ==
    \E outcome \in Outcomes, all_values \in grids :
        /\ outcome # "ok" => all_values = <<>>
        /\ UNCHANGED <<outside, page>>
        /\ \E r \in {LoadVendidosTables(outcome, all_values)} :
              /\ calls' = Append(calls, Call("load_vendidos_tables", SheetVendidos,
                                             outcome, all_values, r))
              /\ notices' = notices \o r.emitted
              /\ IF r.stop
                 THEN pc' = "halted" /\ UNCHANGED df
                 ELSE /\ pc' = next
                      /\ df' = [df EXCEPT !["df_vendidos"] = <<r.ret[1]>>,
                                          !["df_gastos_vendidos"] = <<r.ret[2]>>]

\* one call of load_sheet and the assignment of its table
CallSheet(sheet_name, grids, target, next) ==
    \E outcome \in Outcomes, all_values \in grids :
        /\ outcome # "ok" => all_values = <<>>
        /\ UNCHANGED <<outside, page>>
        /\ \E r \in {LoadSheet(sheet_name, outcome, all_values)} :
              /\ calls' = Append(calls, Call("load_sheet", sheet_name,
                                             outcome, all_values, r))
              /\ notices' = notices \o r.emitted
              /\ IF r.stop
                 THEN pc' = "halted" /\ UNCHANGED df
                 ELSE /\ pc' = next
                      /\ df' = [df EXCEPT ![target] = <<r.ret[1]>>]

-----------------------------------------------------------------------------
(* Frames of the script.  Cells hold the text of the sheet: a column the    *)
(* preprocessing has typed is read through its parser where its value is   *)
(* needed, and a boolean cell is held as the text Python prints for it.     *)

InColumns(t, name) == \E j \in 1..Len(t.columns) : t.columns[j] = name

\* df[name], one cell per row
Column(t, name) ==
    [i \in 1..Len(t.rows) |-> t.rows[i].cells[ColumnPos(t, name)]]

\* df[name] = values: the column is overwritten, or appended when new
SetColumn(t, name, values) ==
    IF InColumns(t, name)
    THEN [columns |-> t.columns,
          rows    |-> [i \in 1..Len(t.rows) |->
                         [label |-> t.rows[i].label,
                          cells |-> [j \in 1..Len(t.columns) |->
                                      IF t.columns[j] = name THEN values[i]
                                      ELSE t.rows[i].cells[j]]]]]
    ELSE [columns |-> Append(t.columns, name),
          rows    |-> [i \in 1..Len(t.rows) |->
                         [label |-> t.rows[i].label,
                          cells |-> Append(t.rows[i].cells, values[i])]]]

\* col_exists(df, hint) or default
Resolve(t, hint, default) ==
    IF ColExists(t.columns, hint) = None THEN default
    ELSE ColExists(t.columns, hint)[1]

COL_R_PRODUCTO == "Producto"
COL_R_METODO(t) == Resolve(t, "todo de venta", "Método de venta")
COL_R_COMPRA_USD(t) ==
    Resolve(t, "compra del producto (USD)", "Precio de compra del producto (USD)")
COL_R_COSTO(t) == Resolve(t, "Costo Total", "Costo Total")
COL_R_VENTA(t) == Resolve(t, "Precio de venta", "Precio de venta (USD)")
COL_R_GANANCIA(t) == Resolve(t, "Ganancias", "Ganancias (USD)")
COL_R_MARGIN == "MARGIN"
COL_R_ROI == "ROI"

COL_P_PRODUCTO == "Producto"
COL_P_PROVEEDOR == "Proveedor"
COL_P_CANTIDAD(t) == Resolve(t, "Cantidad Solicitada", "Cantidad Solicitada")
COL_P_COSTO_TOTAL(t) == Resolve(t, "Costo Total Estimado", "Costo Total Estimado (USD)")
COL_P_FECHA(t) == Resolve(t, "Fecha Estimada", "Fecha Estimada de Llegada")
COL_P_CONFIRMADO(t) == Resolve(t, "Pedido Confirmado", "¿Pedido Confirmado?")

\* .astype(str) of a cell of text
AsStr(cell) == IF cell = None THEN "None" ELSE cell[1]

BoolCell(b) == Some(IF b THEN "True" ELSE "False")

ConfirmedWords == {"SI", "SÍ", "YES", "TRUE", "VERDADERO", "1"}

\* the confirmation column compared as it stands in the sheet
ConfirmadoAsTyped(t) ==
    IF InColumns(t, COL_P_CONFIRMADO(t))
    THEN [i \in 1..Len(t.rows) |->
            BoolCell(AsStr(Column(t, COL_P_CONFIRMADO(t))[i]) \in ConfirmedWords)]
    ELSE [i \in 1..Len(t.rows) |-> BoolCell(FALSE)]

\* the values of df_pedidos["_confirmado"]
Confirmado(t) ==
    IF InColumns(t, COL_P_CONFIRMADO(t))
    THEN [i \in 1..Len(t.rows) |->
            BoolCell(Upper(Strip(AsStr(Column(t, COL_P_CONFIRMADO(t))[i])))
                        \in ConfirmedWords)]
    ELSE [i \in 1..Len(t.rows) |-> BoolCell(FALSE)]

-----------------------------------------------------------------------------
(* The rendering pass: the module-level script from the data loading on.   *)

PassVendidosGrids ==
    { <<>>,
      EndToEndGrid,
      << Wide(VendidosHeaderLeft, VendidosHeaderRight),
         Wide(<<"Widget", "A", "01/02/2024", "2", "$10.00", "$20.00">>,
              <<"Flete", "Envío", "03/02/2024", "$5.00", "Sí">>),
         Wide(<<"Total", "", "", "2", "", "$20.00">>, <<>>) >> }

\* a suppliers sheet with a row that names no type
ProveedoresSampleGrid ==
    << <<"Producto", "Proveedor", "Tipo de proveedor">>,
       <<"Widget", "Acme", "Local">>,
       <<" ", "Acme", "">>,
       <<"", "Zeta", "Importador">> >>

PassSheetGrids ==
    { <<>>,
      EndToEndGrid,
      << <<"x", "PRODUCTOS", " ">>, <<"Widget", "A", "B">> >>,
      ProveedoresSampleGrid }

\* a profitability sheet with a row that names no channel
RentabilidadSampleGrid ==
    << <<"Producto", "Método de venta", "Costo Total", "Precio de venta (USD)",
         "Ganancias (USD)", "MARGIN", "ROI">>,
       <<"Widget", "FBA", "$6.00", "$10.00", "$4.00", "40%", "66.7%">>,
       <<"Widget", "", "$7.00", "$10.00", "$3.00", "30%", "42.9%">>,
       <<"Gadget", "FBM", "$1,200.50", "$1,500.00", "$299.50", "0.2", "0.25">> >>

\* an orders sheet with confirmed, unconfirmed and unanswered orders
PedidosSampleGrid ==
    << <<"Producto", "Proveedor", "Cantidad Solicitada",
         "Costo Total Estimado (USD)", "¿Pedido Confirmado?">>,
       <<"Widget", "Acme", "10", "$60.00", " sí ">>,
       <<"Gadget", "Zeta", "5", "$35.00", "No">>,
       <<"Widget", "Acme", "2", "$12.00", "">>,
       <<"Gadget", "Zeta", "1", "$7.00", "TRUE">> >>

\* the grids a pass may be handed for a sheet
PassGridsOf(sheet_name) ==
    PassSheetGrids \cup
        (CASE sheet_name = SheetRentabilidad -> {RentabilidadSampleGrid}
           [] sheet_name = SheetPedidos -> {PedidosSampleGrid}
           [] OTHER -> {})

LoadVendidos ==
    /\ pc = "load_vendidos"
    /\ CallVendidos(PassVendidosGrids, "load_rentabilidad")

\* the script with the Pedidos line missing
LoadRentabilidadThenProveedores ==
    /\ pc = "load_rentabilidad"
    /\ CallSheet(SheetRentabilidad, PassGridsOf(SheetRentabilidad), "df_rentabilidad", "load_proveedores")

LoadRentabilidad ==
    /\ pc = "load_rentabilidad"
    /\ CallSheet(SheetRentabilidad, PassGridsOf(SheetRentabilidad), "df_rentabilidad", "load_pedidos")

LoadPedidos ==
    /\ pc = "load_pedidos"
    /\ CallSheet(SheetPedidos, PassGridsOf(SheetPedidos), "df_pedidos", "load_proveedores")

LoadProveedores ==
    /\ pc = "load_proveedores"
    /\ CallSheet(SheetProveedores, PassGridsOf(SheetProveedores), "df_proveedores", "preprocess")

\* the key filter without its second statement
DropNullProductoOnly(t) == DropNullIn(t, "Producto")

\* df.dropna(subset=["Producto"]) followed by df[df["Producto"].str.strip() != ""]
DropMissingProducto(t) == DropBlankKey(DropNullIn(t, "Producto"), "Producto")

\* Preprocessing of the loaded tables.  The typing of cells (safe_numeric,
\* safe_pct, to_datetime) rewrites cell values in place; the tables of this
\* model keep the cell texts, and the step is modelled by its row filters,
\* by the column _confirmado it adds to df_pedidos, by the KeyError that
\* dropna raises when the key column is missing and by the AttributeError
\* of .str when two columns bear the name of the confirmation column.
Preprocess ==
    /\ pc = "preprocess"
    /\ LET r == df["df_rentabilidad"][1]
           p == df["df_pedidos"][1]
           r_raises == ~IsEmptyDF(r) /\ ~IsSingleColumn(r, "Producto")
           p_raises == /\ ~IsEmptyDF(p)
                       /\ \/ ~IsSingleColumn(p, "Producto")
                          \/ /\ InColumns(p, COL_P_CONFIRMADO(p))
                             /\ ~IsSingleColumn(p, COL_P_CONFIRMADO(p))
           r2 == IF IsEmptyDF(r) THEN r ELSE DropMissingProducto(r)
           p1 == DropMissingProducto(p)
           p2 == IF IsEmptyDF(p) THEN p
                 ELSE SetColumn(p1, "_confirmado", Confirmado(p1))
       IN  IF r_raises
           THEN pc' = "crashed" /\ UNCHANGED df
           ELSE IF p_raises
           THEN /\ pc' = "crashed"
                /\ df' = [df EXCEPT !["df_rentabilidad"] = <<r2>>]
           ELSE /\ pc' = "render"
                /\ df' = [df EXCEPT !["df_rentabilidad"] = <<r2>>,
                                    !["df_pedidos"] = <<p2>>]
    /\ UNCHANGED <<calls, notices>>
    /\ UNCHANGED <<outside, page>>

\* round(a / d) to the nearest integer, ties to the even one (a >= 0, d > 0)
RoundHalfEven(a, d) ==
    LET q == a \div d
        r == a % d
    IN  IF 2 * r > d THEN q + 1
        ELSE IF 2 * r = d THEN q + (q % 2)
        ELSE q

Digits2(n) == (IF n < 10 THEN "0" ELSE "") \o ToString(n)

Digits3(n) == (IF n < 10 THEN "00" ELSE IF n < 100 THEN "0" ELSE "") \o ToString(n)

\* the thousands separators of the format code ','
RECURSIVE Grouped(_)
Grouped(n) ==
    IF n < 1000 THEN ToString(n)
    ELSE Grouped(n \div 1000) \o "," \o Digits3(n % 1000)

\* fmt_usd: f"${val:,.2f}", on the decimal value of the float
FmtUsd(v) ==
    CASE v.kind = "nan" -> "$nan"
      [] v.kind = "inf" -> IF v.num < 0 THEN "$-inf" ELSE "$inf"
      [] OTHER ->
            LET cents == RoundHalfEven(Abs(v.num) * 100, v.den)
            IN  "$" \o (IF v.num < 0 THEN "-" ELSE "")
                    \o Grouped(cents \div 100) \o "." \o Digits2(cents % 100)

\* fmt_pct: f"{val * 100:.1f}%"
FmtPct(v) ==
    CASE v.kind = "nan" -> "nan%"
      [] v.kind = "inf" -> IF v.num < 0 THEN "-inf%" ELSE "inf%"
      [] OTHER ->
            LET tenths == RoundHalfEven(Abs(v.num) * 1000, v.den)
            IN  (IF v.num < 0 THEN "-" ELSE "")
                    \o ToString(tenths \div 10) \o "." \o ToString(tenths % 10) \o "%"

\* A variable of the script bound to a frame: t is its table, and of names
\* the loaded table when the frame is that very object ("" for a new frame,
\* which no other variable shares).
Frame(name, t) == [of |-> name, t |-> t]

\* a copy that hands back the frame itself
CopyShared(f) == f

\* df.copy()
Copy(f) == [of |-> "", t |-> f.t]

\* df[mask]: a new frame with the rows at the positions in keep
Rows(f, keep) ==
    [of |-> "", t |-> [columns |-> f.t.columns, rows |-> Pick(f.t.rows, keep, 1)]]

\* df[name] = values, written into the frame the variable is bound to
Assign(f, name, values) == [of |-> f.of, t |-> SetColumn(f.t, name, values)]

\* the loaded table after the statements on f: written to when f is it
WrittenBack(f, name, base) == IF f.of = name THEN f.t ELSE base

\* df[df[name].isin(sel)]
IsIn(f, name, sel) ==
    Rows(f, {i \in 1..Len(f.t.rows) :
                /\ Column(f.t, name)[i] # None
                /\ Column(f.t, name)[i][1] \in sel})

\* .unique(): the values in the order of their first occurrence
RECURSIVE Unique(_)
Unique(s) ==
    IF Len(s) = 0 THEN <<>>
    ELSE LET front == Unique(SubSeq(s, 1, Len(s) - 1))
         IN  IF \E k \in 1..Len(front) : front[k] = s[Len(s)] THEN front
             ELSE Append(front, s[Len(s)])

\* df[name].dropna().unique().tolist()
Options(t, name) ==
    LET col == Column(t, name)
        kept == Pick(col, {i \in 1..Len(col) : col[i] # None}, 1)
    IN  Unique([k \in 1..Len(kept) |-> kept[k][1]])

Range(s) == {s[k] : k \in 1..Len(s)}

HasAll(t, names) == \A n \in names : InColumns(t, n)

\* the option lists of the four multiselects (lines 588-611)
productos_list(r) == IF IsEmptyDF(r) THEN <<>> ELSE Options(r, COL_R_PRODUCTO)

metodos_list(r) ==
    IF ~IsEmptyDF(r) /\ InColumns(r, COL_R_METODO(r))
    THEN Options(r, COL_R_METODO(r)) ELSE <<>>

prod_ped_list(p) == IF IsEmptyDF(p) THEN <<>> ELSE Options(p, COL_P_PRODUCTO)

tipos_prov_list(s) ==
    IF ~IsEmptyDF(s) /\ InColumns(s, "Tipo de proveedor")
    THEN Options(s, "Tipo de proveedor") ELSE <<>>

\* the product and channel filters with .isin applied to an empty selection
FilterRentabilidadAlways(f, sel_productos, sel_metodos) ==
    LET f1 == IsIn(f, COL_R_PRODUCTO, sel_productos)
    IN  IF InColumns(f1.t, COL_R_METODO(f1.t))
        THEN IsIn(f1, COL_R_METODO(f1.t), sel_metodos) ELSE f1

\* lines 831-834 and 1208-1211
FilterRentabilidad(f, sel_productos, sel_metodos) ==
    LET f1 == IF sel_productos # {} THEN IsIn(f, COL_R_PRODUCTO, sel_productos) ELSE f
    IN  IF sel_metodos # {} /\ InColumns(f1.t, COL_R_METODO(f1.t))
        THEN IsIn(f1, COL_R_METODO(f1.t), sel_metodos) ELSE f1

IsTrue(cell) == cell = BoolCell(TRUE)

\* lines 1110-1115
FilterPedidos(f, estado_filtro, sel_prod_ped) ==
    LET conf == Column(f.t, "_confirmado")
        f1 == CASE estado_filtro = "Confirmados" ->
                      Rows(f, {i \in 1..Len(conf) : IsTrue(conf[i])})
                [] estado_filtro = "Pendientes" ->
                      Rows(f, {i \in 1..Len(conf) : ~IsTrue(conf[i])})
                [] OTHER -> f
    IN  IF sel_prod_ped # {} THEN IsIn(f1, COL_P_PRODUCTO, sel_prod_ped) ELSE f1

\* " ".join(row.astype(str))
RECURSIVE Joined(_)
Joined(cells) ==
    IF Len(cells) = 0 THEN ""
    ELSE IF Len(cells) = 1 THEN AsStr(cells[1])
    ELSE AsStr(cells[1]) \o " " \o Joined(Tail(cells))

\* lines 1344-1348
FilterProveedores(f, busqueda_prov, sel_tipo_prov) ==
    LET f1 == IF busqueda_prov # ""
              THEN Rows(f, {i \in 1..Len(f.t.rows) :
                              Contains(Lower(Joined(f.t.rows[i].cells)),
                                       Lower(busqueda_prov))})
              ELSE f
    IN  IF sel_tipo_prov # {} /\ InColumns(f1.t, "Tipo de proveedor")
        THEN IsIn(f1, "Tipo de proveedor", sel_tipo_prov) ELSE f1

\* df[c] = df[c].apply(fmt_pct) for a column typed by safe_pct, if present
FormatPct(f, c) ==
    IF InColumns(f.t, c)
    THEN Assign(f, c, [i \in 1..Len(f.t.rows) |->
                         Some(FmtPct(CleanPct(Column(f.t, c)[i])))])
    ELSE f

\* df[c] = df[c].apply(fmt_usd) for a column typed by safe_numeric, if present
FormatUsd(f, c) ==
    IF InColumns(f.t, c)
    THEN Assign(f, c, [i \in 1..Len(f.t.rows) |->
                         Some(FmtUsd(CleanCurrency(Column(f.t, c)[i])))])
    ELSE f

\* lines 957-963
DisplayRentabilidad(f) ==
    LET t == f.t
    IN  FormatUsd(FormatUsd(FormatUsd(FormatUsd(
            FormatPct(FormatPct(f, COL_R_ROI), COL_R_MARGIN),
            COL_R_COMPRA_USD(t)), COL_R_VENTA(t)), COL_R_COSTO(t)), COL_R_GANANCIA(t))

\* lines 1300-1305
DisplayCostos(f) ==
    LET t == f.t
    IN  FormatPct(FormatPct(
            FormatUsd(FormatUsd(FormatUsd(FormatUsd(f,
                COL_R_COMPRA_USD(t)), COL_R_VENTA(t)), COL_R_COSTO(t)), COL_R_GANANCIA(t)),
            COL_R_ROI), COL_R_MARGIN)

\* df_tabla["Estado"] = df_tabla["_confirmado"].map({...}); the labels are
\* written without the pictograph they start with
WithEstado(f) ==
    Assign(f, "Estado",
           [i \in 1..Len(f.t.rows) |->
               IF IsTrue(Column(f.t, "_confirmado")[i]) THEN Some("Confirmado")
               ELSE Some("Pendiente")])

\* df_tabla[cols_show]: the columns whose name does not start with "_"
ColsShow(t) ==
    LET keep == {j \in 1..Len(t.columns) :
                    Len(t.columns[j]) = 0 \/ SubSeq(t.columns[j], 1, 1) # "_"}
    IN  [columns |-> Pick(t.columns, keep, 1),
         rows    |-> [i \in 1..Len(t.rows) |->
                        [label |-> t.rows[i].label,
                         cells |-> Pick(t.rows[i].cells, keep, 1)]]]

\* What a tab leaves: whether a statement of it raised, the frames it bound
\* (<<>> for a variable it did not bind) and the loaded table afterwards.
TabResult(raises, filtered, shown, kpis, base) ==
    [raises |-> raises, filtered |-> filtered, shown |-> shown, kpis |-> kpis,
     base |-> base]

\* tab 1 reads df_vendidos["Producto"] (line 648) without a guard
Tab1Raises(v) == ~IsEmptyDF(v) /\ ~InColumns(v, "Producto")

\* the charts of tab 2 read these columns of a non-empty df_r without a
\* guard (lines 861-878, 895, 924, 946)
Tab2Raises(t) ==
    ~HasAll(t, {COL_R_ROI, COL_R_MARGIN, COL_R_GANANCIA(t), COL_R_METODO(t),
                COL_R_COSTO(t)})

\* tab 2, lines 827-964
Tab2(base, sel_productos, sel_metodos) ==
    IF IsEmptyDF(base) THEN TabResult(FALSE, <<>>, <<>>, <<>>, base)
    ELSE LET df_r == FilterRentabilidad(Copy(Frame("df_rentabilidad", base)),
                                        sel_productos, sel_metodos)
             df_display == DisplayRentabilidad(Copy(df_r))
         IN  IF IsEmptyDF(df_r.t)
             THEN TabResult(FALSE, <<df_r.t>>, <<>>, <<>>, base)
             ELSE IF Tab2Raises(df_r.t)
             THEN TabResult(TRUE, <<df_r.t>>, <<>>, <<>>, base)
             ELSE TabResult(FALSE, <<df_r.t>>, <<df_display.t>>, <<>>,
                            WrittenBack(df_display, "df_rentabilidad", base))

\* tab 3, lines 974-1094: the per-channel cards and charts read these
\* columns without a guard; the tab writes to frames of its own only
Tab3Raises(r) ==
    /\ ~IsEmptyDF(r)
    /\ InColumns(r, COL_R_METODO(r))
    /\ Options(r, COL_R_METODO(r)) # <<>>
    /\ ~HasAll(r, {COL_R_ROI, COL_R_MARGIN, COL_R_GANANCIA(r), COL_R_COSTO(r),
                   COL_R_VENTA(r)})

\* the timeline of tab 4 asks for the cost column in hover_data (line 1162)
Tab4Raises(t) ==
    /\ InColumns(t, COL_P_FECHA(t))
    /\ \E i \in 1..Len(t.rows) : ToDatetime(Column(t, COL_P_FECHA(t))[i]) # NaT
    /\ InColumns(t, COL_P_CANTIDAD(t))
    /\ InColumns(t, COL_P_PROVEEDOR)
    /\ ~InColumns(t, COL_P_COSTO_TOTAL(t))

\* lines 1117-1119
PedidosKpis(t) ==
    LET total_pedidos == Len(t.rows)
        confirmados == Cardinality({i \in 1..Len(t.rows) :
                                       IsTrue(Column(t, "_confirmado")[i])})
    IN  [total_pedidos |-> total_pedidos, confirmados |-> confirmados,
         pendientes |-> total_pedidos - confirmados]

\* tab 4, lines 1105-1193
Tab4(base, estado_filtro, sel_prod_ped) ==
    IF IsEmptyDF(base) THEN TabResult(FALSE, <<>>, <<>>, <<>>, base)
    ELSE LET df_p == FilterPedidos(Copy(Frame("df_pedidos", base)),
                                   estado_filtro, sel_prod_ped)
             df_tabla == WithEstado(Copy(df_p))
         IN  IF IsEmptyDF(df_p.t)
             THEN TabResult(FALSE, <<df_p.t>>, <<>>, <<PedidosKpis(df_p.t)>>, base)
             ELSE IF Tab4Raises(df_p.t)
             THEN TabResult(TRUE, <<df_p.t>>, <<>>, <<PedidosKpis(df_p.t)>>, base)
             ELSE TabResult(FALSE, <<df_p.t>>, <<ColsShow(df_tabla.t)>>,
                            <<PedidosKpis(df_p.t)>>,
                            WrittenBack(df_tabla, "df_pedidos", base))

\* tab 5 reads the cost column without a guard (line 1237), and the other
\* typed columns in the per-channel breakdown of a single product (1291-1294)
Tab5Raises(t, sel_productos) ==
    \/ ~InColumns(t, COL_R_COSTO(t))
    \/ /\ Cardinality(sel_productos) = 1
       /\ InColumns(t, COL_R_METODO(t))
       /\ Options(t, COL_R_METODO(t)) # <<>>
       /\ ~HasAll(t, {COL_R_GANANCIA(t), COL_R_ROI, COL_R_MARGIN})

\* tab 5, lines 1203-1309
Tab5(base, sel_productos, sel_metodos) ==
    IF IsEmptyDF(base) THEN TabResult(FALSE, <<>>, <<>>, <<>>, base)
    ELSE LET df_c == FilterRentabilidad(Copy(Frame("df_rentabilidad", base)),
                                        sel_productos, sel_metodos)
             df_cost_display == DisplayCostos(Copy(df_c))
         IN  IF IsEmptyDF(df_c.t)
             THEN TabResult(FALSE, <<df_c.t>>, <<>>, <<>>, base)
             ELSE IF Tab5Raises(df_c.t, sel_productos)
             THEN TabResult(TRUE, <<df_c.t>>, <<>>, <<>>, base)
             ELSE TabResult(FALSE, <<df_c.t>>, <<df_cost_display.t>>, <<>>,
                            WrittenBack(df_cost_display, "df_rentabilidad", base))

\* tab 6, lines 1319-1412: df_pv is shown as it is
Tab6(base, busqueda_prov, sel_tipo_prov) ==
    IF IsEmptyDF(base) THEN TabResult(FALSE, <<>>, <<>>, <<>>, base)
    ELSE LET df_pv == FilterProveedores(Copy(Frame("df_proveedores", base)),
                                        busqueda_prov, sel_tipo_prov)
         IN  TabResult(FALSE, <<df_pv.t>>,
                       IF IsEmptyDF(df_pv.t) THEN <<>> ELSE <<df_pv.t>>, <<>>,
                       WrittenBack(df_pv, "df_proveedores", base))

BaseNames == {"df_rentabilidad", "df_pedidos", "df_proveedores"}

\* What the six tabs, run in order under the widget values w, leave behind
\* (t2, t4, t5, t6 are the results of the tabs with filters).  A tab that
\* raises ends the script: raised is its number (0 when none raises) and the
\* tabs after it leave nothing.  before holds the loaded tables as the tabs
\* found them, after as they left them.
Tabs(w, t2, t4, t5, t6) ==
    LET before == [n \in BaseNames |-> df[n][1]]
        raised == IF Tab1Raises(df["df_vendidos"][1]) THEN 1
                  ELSE IF t2.raises THEN 2
                  ELSE IF Tab3Raises(t2.base) THEN 3
                  ELSE IF t4.raises THEN 4
                  ELSE IF t5.raises THEN 5
                  ELSE 0
        ran(k) == raised = 0 \/ k <= raised
        nothing == TabResult(FALSE, <<>>, <<>>, <<>>, <<>>)
        r2 == IF ran(2) THEN t2 ELSE nothing
        r4 == IF ran(4) THEN t4 ELSE nothing
        r5 == IF ran(5) THEN t5 ELSE nothing
        r6 == IF ran(6) THEN t6 ELSE nothing
    IN  [widgets |-> w, raised |-> raised, before |-> before,
         df_r |-> r2.filtered, df_display |-> r2.shown,
         df_p |-> r4.filtered, df_tabla |-> r4.shown, kpis |-> r4.kpis,
         df_c |-> r5.filtered, df_cost_display |-> r5.shown,
         df_pv |-> r6.filtered,
         after |-> [n \in BaseNames |->
                      CASE n = "df_rentabilidad" ->
                              IF ran(5) THEN t5.base
                              ELSE IF ran(2) THEN t2.base ELSE before[n]
                        [] n = "df_pedidos" -> IF ran(4) THEN t4.base ELSE before[n]
                        [] OTHER -> IF ran(6) THEN t6.base ELSE before[n]]]

\* the texts typed into the supplier search
SearchTexts == {"", "ze"}

\* the values the widgets of the sidebar can hand to a pass
Widgets ==
    LET r == df["df_rentabilidad"][1]
        p == df["df_pedidos"][1]
        s == df["df_proveedores"][1]
    IN  [sel_productos : SUBSET Range(productos_list(r)),
         sel_metodos : SUBSET Range(metodos_list(r)),
         estado_filtro : {"Todos", "Confirmados", "Pendientes"},
         sel_prod_ped : SUBSET Range(prod_ped_list(p)),
         busqueda_prov : SearchTexts,
         sel_tipo_prov : SUBSET Range(tipos_prov_list(s))]

\* the widgets of a new session: default=productos_list and so on, the first
\* entry of the selectbox, an empty text_input
DefaultWidgets ==
    LET r == df["df_rentabilidad"][1]
        p == df["df_pedidos"][1]
        s == df["df_proveedores"][1]
    IN  { [sel_productos |-> Range(productos_list(r)),
           sel_metodos |-> Range(metodos_list(r)),
           estado_filtro |-> "Todos",
           sel_prod_ped |-> Range(prod_ped_list(p)),
           busqueda_prov |-> "",
           sel_tipo_prov |-> Range(tipos_prov_list(s))] }

\* the channel list of the sidebar is df[COL_R_METODO].dropna().unique():
\* AttributeError when two columns bear that name
SidebarRaises ==
    LET r == df["df_rentabilidad"][1]
    IN  /\ ~IsEmptyDF(r)
        /\ InColumns(r, COL_R_METODO(r))
        /\ ~IsSingleColumn(r, COL_R_METODO(r))

\* The sidebar and the six tabs (lines 572-1412) under some widget values.
\* The charts and metrics read the frames and write to none; they are
\* modelled by the exceptions their unguarded column reads raise.
RenderWith(widgets) ==
    /\ pc = "render"
    /\ IF SidebarRaises
       THEN pc' = "render_crashed" /\ UNCHANGED <<df, page>>
       ELSE \E w \in widgets :
            \E t2 \in {Tab2(df["df_rentabilidad"][1], w.sel_productos, w.sel_metodos)} :
            \E t4 \in {Tab4(df["df_pedidos"][1], w.estado_filtro, w.sel_prod_ped)} :
            \E t5 \in {Tab5(t2.base, w.sel_productos, w.sel_metodos)} :
            \E t6 \in {Tab6(df["df_proveedores"][1], w.busqueda_prov, w.sel_tipo_prov)} :
            \E res \in {Tabs(w, t2, t4, t5, t6)} :
                 /\ page' = <<res>>
                 /\ pc' = IF res.raised = 0 THEN "done" ELSE "render_crashed"
                 /\ df' = [n \in DfNames |->
                             IF n \in BaseNames THEN <<res.after[n]>> ELSE df[n]]
    /\ UNCHANGED <<calls, notices>>
    /\ UNCHANGED outside

\* the first pass of a session: every widget at its default
Render == RenderWith(DefaultWidgets)

Next ==
    \/ LoadVendidos
    \/ LoadRentabilidad
    \/ LoadPedidos
    \/ LoadProveedores
    \/ Preprocess
    \/ Render

Spec == Init /\ [][Next]_vars

-----------------------------------------------------------------------------
(* A pass of a running session: the sheets hold the sample tables (or the  *)
(* fetch fails) and the widgets of the sidebar hold any value.             *)

TabsVendidos ==
    /\ pc = "load_vendidos"
    /\ CallVendidos({VendidosSampleGrid}, "load_rentabilidad")

TabsRentabilidad ==
    /\ pc = "load_rentabilidad"
    /\ CallSheet(SheetRentabilidad, {RentabilidadSampleGrid, EndToEndGrid},
                 "df_rentabilidad", "load_pedidos")

TabsPedidos ==
    /\ pc = "load_pedidos"
    /\ CallSheet(SheetPedidos, {PedidosSampleGrid, ProveedoresSampleGrid},
                 "df_pedidos", "load_proveedores")

TabsProveedores ==
    /\ pc = "load_proveedores"
    /\ CallSheet(SheetProveedores, {ProveedoresSampleGrid}, "df_proveedores",
                 "preprocess")

RenderAny == RenderWith(Widgets)

NextTabs ==
    \/ TabsVendidos
    \/ TabsRentabilidad
    \/ TabsPedidos
    \/ TabsProveedores
    \/ Preprocess
    \/ RenderAny

SpecTabs == Init /\ [][NextTabs]_vars

-----------------------------------------------------------------------------
(* The loaders on their own: one call of either loader on any grid of the  *)
(* bounded families, under any outcome of the fetch.                       *)

TargetOf(sheet_name) ==
    CASE sheet_name = SheetRentabilidad -> "df_rentabilidad"
      [] sheet_name = SheetPedidos -> "df_pedidos"
      [] OTHER -> "df_proveedores"

InitLoaders ==
    /\ pc = "call"
    /\ calls = <<>>
    /\ notices = <<>>
    /\ df = [n \in DfNames |-> <<>>]
    /\ source = <<>> /\ cache = <<>> /\ clock = 0
    /\ page = <<>>

OneLoadSheet ==
    /\ pc = "call"
    /\ \E sheet_name \in SheetNames :
          CallSheet(sheet_name, SheetGrids, TargetOf(sheet_name), "returned")

OneLoadVendidos ==
    /\ pc = "call"
    /\ CallVendidos(VendidosGrids, "returned")

NextLoaders == OneLoadSheet \/ OneLoadVendidos

SpecLoaders == InitLoaders /\ [][NextLoaders]_vars

-----------------------------------------------------------------------------
(* Rendering passes over time, with @st.cache_data(ttl=60) on both         *)
(* loaders.  source[k] is what the data source would answer for sheet k    *)
(* now; cache[k] is <<>> or the entry of the loader call for sheet k: the  *)
(* result stored, the time it was stored at and the answer of the source   *)
(* it was computed from.  The steps after the four loads are left out.     *)

TTL == 60

TickSeconds == 30

MaxClock == 90

CacheKeys == {SheetVendidos} \cup SheetNames

Answer(outcome, all_values) == [outcome |-> outcome, all_values |-> all_values]

\* the answers the data source may give for a sheet
Answers(key) ==
    CASE key = SheetVendidos ->
            { Answer("ok", VendidosSampleGrid),
              Answer("ok", SubSeq(VendidosSampleGrid, 1, 2)),
              Answer("Exception", <<>>) }
      [] key = SheetPedidos ->
            { Answer("ok", << <<"Producto", "Proveedor", "Tipo">>,
                              <<"Widget", "Acme", "Local">> >>),
              Answer("ok", << <<"Producto", "Proveedor", "Tipo">>,
                              <<"Widget", "Acme", "Local">>,
                              <<"Gadget", "Zeta", "">> >>),
              Answer("WorksheetNotFound", <<>>),
              Answer("SpreadsheetNotFound", <<>>) }
      [] OTHER -> { Answer("ok", EndToEndGrid) }

\* the loader run on an answer of the source, with no cache
Uncached(key, answer) ==
    IF key = SheetVendidos
    THEN LoadVendidosTables(answer.outcome, answer.all_values)
    ELSE LoadSheet(key, answer.outcome, answer.all_values)

\* an entry that never expires
CacheHitNoExpiry(key) == cache[key] # <<>>

\* the entry of the call exists and is younger than the ttl
CacheHit(key) == cache[key] # <<>> /\ clock - cache[key][1].at < TTL

\* the module-level variables a call's tables are assigned to
Assigned(key, ret) ==
    IF key = SheetVendidos
    THEN [df EXCEPT !["df_vendidos"] = <<ret[1]>>,
                    !["df_gastos_vendidos"] = <<ret[2]>>]
    ELSE [df EXCEPT ![TargetOf(key)] = <<ret[1]>>]

Logged(key, hit, ret, em, fresh, src, at) ==
    [fn |-> IF key = SheetVendidos THEN "load_vendidos_tables" ELSE "load_sheet",
     sheet |-> key, hit |-> hit, ret |-> ret, emitted |-> em,
     fresh |-> fresh, src |-> src, now_src |-> source[key], at |-> at, now |-> clock]

\* one call of a cached loader: a hit returns the stored tables and replays
\* the stored notices; a miss runs the function and stores what it returns
\* (nothing when st.stop() ends the pass)
CachedCall(key, next) ==
    \E r \in {Uncached(key, source[key])} :
        IF CacheHit(key)
        THEN LET e == cache[key][1]
             IN  /\ calls' = Append(calls, Logged(key, TRUE, e.r.ret, e.r.emitted,
                                                  r.ret, e.src, e.at))
                 /\ notices' = notices \o e.r.emitted
                 /\ df' = Assigned(key, e.r.ret)
                 /\ pc' = next
                 /\ UNCHANGED <<source, cache, clock, page>>
        ELSE /\ calls' = Append(calls, Logged(key, FALSE, r.ret, r.emitted,
                                              r.ret, source[key], clock))
             /\ notices' = notices \o r.emitted
             /\ IF r.stop
                THEN pc' = "halted" /\ UNCHANGED <<df, cache>>
                ELSE /\ pc' = next
                     /\ df' = Assigned(key, r.ret)
                     /\ cache' = [cache EXCEPT ![key] =
                                     <<[at |-> clock, r |-> r, src |-> source[key]]>>]
             /\ UNCHANGED <<source, clock, page>>

InitCache ==
    /\ pc = "load_vendidos"
    /\ calls = <<>>
    /\ notices = <<>>
    /\ df = [n \in DfNames |-> <<>>]
    /\ source \in [CacheKeys -> UNION {Answers(k) : k \in CacheKeys}]
    /\ \A k \in CacheKeys : source[k] \in Answers(k)
    /\ cache = [k \in CacheKeys |-> <<>>]
    /\ clock = 0
    /\ page = <<>>

CachedVendidos ==
    /\ pc = "load_vendidos"
    /\ CachedCall(SheetVendidos, "load_rentabilidad")

CachedRentabilidad ==
    /\ pc = "load_rentabilidad"
    /\ CachedCall(SheetRentabilidad, "load_pedidos")

CachedPedidos ==
    /\ pc = "load_pedidos"
    /\ CachedCall(SheetPedidos, "load_proveedores")

CachedProveedores ==
    /\ pc = "load_proveedores"
    /\ CachedCall(SheetProveedores, "rendered")

Between == pc \in {"rendered", "halted"}

\* time passes between two passes
Tick ==
    /\ Between
    /\ clock + TickSeconds <= MaxClock
    /\ clock' = clock + TickSeconds
    /\ UNCHANGED <<pc, calls, notices, df, source, cache, page>>

\* the spreadsheet is edited, a worksheet goes missing or comes back
SourceChanges ==
    /\ Between
    /\ \E k \in CacheKeys : \E a \in Answers(k) :
          /\ a # source[k]
          /\ source' = [source EXCEPT ![k] = a]
    /\ UNCHANGED <<pc, calls, notices, df, cache, clock, page>>

\* a rerun of the script: a widget is used, the page is reloaded
Rerun ==
    /\ Between
    /\ pc' = "load_vendidos"
    /\ calls' = <<>>
    /\ notices' = <<>>
    /\ df' = [n \in DfNames |-> <<>>]
    /\ UNCHANGED <<source, cache, clock, page>>

\* the button "Actualizar datos": st.cache_data.clear(), then st.rerun()
RefreshButton ==
    /\ pc = "rendered"
    /\ cache' = [k \in CacheKeys |-> <<>>]
    /\ pc' = "load_vendidos"
    /\ calls' = << [fn |-> "st.cache_data.clear", sheet |-> "", hit |-> FALSE,
                    ret |-> <<>>, emitted |-> <<>>, fresh |-> <<>>,
                    src |-> <<>>, now_src |-> <<>>, at |-> clock, now |-> clock] >>
    /\ notices' = <<>>
    /\ df' = [n \in DfNames |-> <<>>]
    /\ UNCHANGED <<source, clock, page>>

NextCache ==
    \/ CachedVendidos
    \/ CachedRentabilidad
    \/ CachedPedidos
    \/ CachedProveedores
    \/ Tick
    \/ SourceChanges
    \/ Rerun
    \/ RefreshButton

SpecCache == InitCache /\ [][NextCache]_vars

-----------------------------------------------------------------------------
(* The cell-level helpers on their own: one application of a value parser  *)
(* to any cell of a bounded family of cell texts.                          *)

MaxText == 3

TextAlphabet == {"$", " ", ",", ".", "-", "%", "1", "5", "0", "x"}

RECURSIVE TextsUpTo(_)
TextsUpTo(n) ==
    IF n = 0 THEN {""}
    ELSE LET prev == TextsUpTo(n - 1)
         IN  prev \cup {t \o ch : t \in prev, ch \in TextAlphabet}

SampleTexts ==
    {"$1,234.56", "$ 1,000", "22.42%", "0.35", "5.5", "5.0%", "-5.00", " 5.01 %",
     "nan", "NaN", "-inf", "Infinity", "1e3", "1_000", "N/A", "Total", "1,5,0"}

\* a cell as a loader leaves it: null, or its text
CellValues == {None} \cup {Some(t) : t \in TextsUpTo(MaxText) \cup SampleTexts}

Applied(fn, val, ret) == [fn |-> fn, val |-> val, ret |-> ret]

InitParsers ==
    /\ pc = "call"
    /\ calls = <<>>
    /\ notices = <<>>
    /\ df = [n \in DfNames |-> <<>>]
    /\ source = <<>> /\ cache = <<>> /\ clock = 0
    /\ page = <<>>

\* df[col].apply(_clean_currency), one cell
ApplyCleanCurrency ==
    /\ pc = "call"
    /\ \E val \in CellValues :
          calls' = Append(calls, Applied("_clean_currency", val, CleanCurrency(val)))
    /\ pc' = "returned"
    /\ UNCHANGED <<notices, df>>
    /\ UNCHANGED <<outside, page>>

\* df[col].apply(_clean_pct), one cell
ApplyCleanPct ==
    /\ pc = "call"
    /\ \E val \in CellValues :
          calls' = Append(calls, Applied("_clean_pct", val, CleanPct(val)))
    /\ pc' = "returned"
    /\ UNCHANGED <<notices, df>>
    /\ UNCHANGED <<outside, page>>

DateWords ==
    {"ENERO", "enero", "Febrero", "DICIEMBRE", "Diciembre", "MAYO", "SEPTIEMBRE",
     "January", "DECEMBRE", "May", "Total"}

DateYears == {"2024", "2023"}

DateDays == {"1", "01", "02", "12", "13", "29", "31"}

DateTexts ==
    {a \o " " \o b : a \in DateWords, b \in DateYears}
        \cup {a \o "/" \o b \o "/" \o c : a, b \in DateDays, c \in DateYears}
        \cup {"2024-02-29", "2023-02-29", "01-02-2024", "ENERO  2024 ", "ENERO",
              "ENERO 2024 x", "x", "Total"}

\* df[col] = pd.to_datetime(df[col], errors="coerce", dayfirst=True), one cell
ApplyToDatetime ==
    /\ pc = "call"
    /\ \E val \in {None} \cup {Some(t) : t \in DateTexts} :
          calls' = Append(calls, Applied("to_datetime", val, ToDatetime(val)))
    /\ pc' = "returned"
    /\ UNCHANGED <<notices, df>>
    /\ UNCHANGED <<outside, page>>

MaxColumns == 3

ColumnNames ==
    {"Producto", "Precio Unitario (USD)", "PRECIO unitario", "Categoría",
     "Categoría_1", "Notas"}

ColumnLists == UNION { [1..n -> ColumnNames] : n \in 0..MaxColumns }

DesiredNames == {"Precio Unitario", "precio", "Categor", "CATEGORÍA", "Monto"}

\* COL_X = col_exists(df, "...") or "...": the call itself; the columns of
\* the table after the call are recorded beside its result
ApplyColExists ==
    /\ pc = "call"
    /\ \E columns \in ColumnLists, col \in DesiredNames :
          calls' = Append(calls, [fn |-> "col_exists", columns |-> columns,
                                  col |-> col, ret |-> ColExists(columns, col),
                                  after |-> columns])
    /\ pc' = "returned"
    /\ UNCHANGED <<notices, df>>
    /\ UNCHANGED <<outside, page>>

NextParsers ==
    \/ ApplyCleanCurrency
    \/ ApplyCleanPct
    \/ ApplyToDatetime
    \/ ApplyColExists

SpecParsers == InitParsers /\ [][NextParsers]_vars

-----------------------------------------------------------------------------
(* Claims about the loaders (SpecLoaders).                                 *)

CallIds == 1..Len(calls)

\* the tables a call returned
TablesOf(c) == { c.ret[k] : k \in 1..Len(c.ret) }

Distinct(names) ==
    \A i, j \in 1..Len(names) : i # j => names[i] # names[j]

\* the call reached the normalisation of a fetched grid
Normalized(c) == c.outcome = "ok" /\ c.path = "normal"

HeadersOf(c) == c.all_values[c.header_idx + 1]

DataOf(c) == SubSeq(c.all_values, c.header_idx + 2, Len(c.all_values))

CellsOf(t) == [i \in 1..Len(t.rows) |-> t.rows[i].cells]

LabelsOf(t) == [i \in 1..Len(t.rows) |-> t.rows[i].label]

\* C1: the column names of every table a loader returns are pairwise
\* distinct, whatever the header row (also one that already holds a name of
\* the form Name_N).
C1_ColumnNamesDistinct ==
    \A i \in CallIds : \A t \in TablesOf(calls[i]) : Distinct(t.columns)

\* the trimmed, non-empty header names of a call, left to right
RECURSIVE KeptNames(_)
KeptNames(headers) ==
    IF Len(headers) = 0 THEN <<>>
    ELSE (IF Strip(Head(headers)) = "" THEN <<>> ELSE <<Strip(Head(headers))>>)
            \o KeptNames(Tail(headers))

Earlier(names, j) == Cardinality({i \in 1..(j - 1) : names[i] = names[j]})

\* C2: load_sheet names its columns after the trimmed non-empty header
\* names, in their order and number; the first occurrence of a name stays
\* bare and its k-th later occurrence becomes Name_k.
C2_DedupSuffixes ==
    \A i \in CallIds :
        (calls[i].fn = "load_sheet" /\ Normalized(calls[i])) =>
            LET names == KeptNames(HeadersOf(calls[i]))
                cols == calls[i].ret[1].columns
            IN  /\ Len(cols) = Len(names)
                /\ \A j \in 1..Len(names) :
                      cols[j] = IF Earlier(names, j) = 0 THEN names[j]
                                ELSE names[j] \o "_" \o ToString(Earlier(names, j))

C2_Witness ==
    \E i \in CallIds :
        /\ calls[i].fn = "load_sheet" /\ Normalized(calls[i])
        /\ HeadersOf(calls[i]) = <<"Proveedor", "Proveedor", "Proveedor">>
        /\ calls[i].ret[1].columns = <<"Proveedor", "Proveedor_1", "Proveedor_2">>

\* some cell of the row holds the marker, letter case ignored
HasMarker(row, marker) ==
    \E j \in 1..Len(row) :
        \E a \in 1..Len(row[j]) :
            /\ a + Len(marker) - 1 <= Len(row[j])
            /\ Lower(SubSeq(row[j], a, a + Len(marker) - 1)) = Lower(marker)

MarkerOf(c) ==
    IF c.fn = "load_sheet" THEN ExpectedHeader(c.sheet) ELSE "Producto"

\* C3: the located header row is the smallest row index with a cell that
\* contains the marker as a case-insensitive substring, and 0 when no row
\* has one.
C3_FirstMatchingRow ==
    \A i \in CallIds :
        calls[i].header_idx >= 0 =>
            LET g == calls[i].all_values
                hits == {r \in 0..(Len(g) - 1) : HasMarker(g[r + 1], MarkerOf(calls[i]))}
            IN  IF hits = {} THEN calls[i].header_idx = 0
                ELSE /\ calls[i].header_idx \in hits
                     /\ \A r \in hits : calls[i].header_idx <= r

C3_Witness ==
    \E i \in CallIds :
        /\ calls[i].all_values = OffsetGrid
        /\ MarkerOf(calls[i]) = "Producto"
        /\ calls[i].header_idx = Len(OffsetGrid) - 2

EndToEndColumns == <<"Producto", "Categoría", "Categoría_1">>

OnEndToEnd(c) ==
    c.outcome = "ok" /\ c.all_values = EndToEndGrid /\ MarkerOf(c) = "Producto"

\* C4 as stated: on the end-to-end grid the loader locates header row 1 and
\* returns the three columns with the single data row Widget, A, B.
C4_Original ==
    \A i \in CallIds :
        OnEndToEnd(calls[i]) =>
            /\ calls[i].header_idx = 1
            /\ calls[i].ret[1].columns = EndToEndColumns
            /\ CellsOf(calls[i].ret[1]) = << <<Some("Widget"), Some("A"), Some("B")>> >>

\* C4 as amended: on the end-to-end grid both loaders locate header row 1;
\* load_sheet returns the three columns with two data rows, Widget, A, B and
\* Total, null, null (only the blank row is dropped); load_vendidos_tables,
\* whose windows need 21 columns, reports an error and returns two empty
\* tables.
C4_EndToEnd ==
    \A i \in CallIds :
        OnEndToEnd(calls[i]) =>
            /\ calls[i].header_idx = 1
            /\ calls[i].fn = "load_sheet" =>
                  /\ calls[i].ret[1].columns = EndToEndColumns
                  /\ CellsOf(calls[i].ret[1]) =
                        << <<Some("Widget"), Some("A"), Some("B")>>,
                           <<Some("Total"), None, None>> >>
                  /\ calls[i].emitted = <<>>
            /\ calls[i].fn = "load_vendidos_tables" =>
                  /\ calls[i].ret = <<EmptyDF, EmptyDF>>
                  /\ Len(calls[i].emitted) = 1

C4_Witness ==
    \E i \in CallIds :
        /\ OnEndToEnd(calls[i])
        /\ calls[i].fn = "load_sheet"
        /\ Len(calls[i].ret[1].rows) = 2

ShortRows(c) == {r \in 1..Len(DataOf(c)) : Len(DataOf(c)[r]) < Len(HeadersOf(c))}

\* the grid is a RawGrid of the data model: rows below the header row may be
\* shorter than it, none is longer
NoLongRows(c) == \A r \in 1..Len(DataOf(c)) : Len(DataOf(c)[r]) <= Len(HeadersOf(c))

\* the 1-based positions of the header cells that are not blank
KeptPositions(headers) ==
    LET keep == {j \in 1..Len(headers) : Strip(headers[j]) # ""}
    IN  Pick([j \in 1..Len(headers) |-> j], keep, 1)

\* C9: a grid with data rows shorter than its header row does not send
\* load_sheet down an error path; the table is returned, and in a short row
\* the cells past its end are null.
C9_RaggedRowsLoad ==
    \A i \in CallIds :
        (/\ calls[i].fn = "load_sheet"
         /\ calls[i].outcome = "ok"
         /\ calls[i].header_idx >= 0
         /\ NoLongRows(calls[i])
         /\ ShortRows(calls[i]) # {}) =>
            /\ calls[i].path = "normal"
            /\ calls[i].emitted = <<>>
            /\ LET t == calls[i].ret[1]
                   pos == KeptPositions(HeadersOf(calls[i]))
               IN  \A k \in 1..Len(t.rows) : \A j \in 1..Len(pos) :
                      pos[j] > Len(DataOf(calls[i])[t.rows[k].label + 1])
                          => t.rows[k].cells[j] = None

\* the data rows (by 0-based position) with a non-empty cell under a header
\* cell that is not blank
RowsWithContent(c) ==
    {r \in 0..(Len(DataOf(c)) - 1) :
        \E j \in 1..Len(DataOf(c)[r + 1]) :
            /\ j <= Len(HeadersOf(c))
            /\ Strip(HeadersOf(c)[j]) # ""
            /\ DataOf(c)[r + 1][j] # ""}

\* C10: a table returned by load_sheet has no row whose cells are all null,
\* and its rows are exactly the data rows of the grid that hold a non-empty
\* cell in a retained column.
C10_NoBlankRows ==
    \A i \in CallIds :
        (calls[i].fn = "load_sheet" /\ calls[i].outcome = "ok") =>
            LET t == calls[i].ret[1]
            IN  /\ \A k \in 1..Len(t.rows) : ~AllNull(t.rows[k].cells)
                /\ (calls[i].header_idx >= 0 /\ NoLongRows(calls[i])) =>
                      {t.rows[k].label : k \in 1..Len(t.rows)} = RowsWithContent(calls[i])

\* Whenever load_sheet builds its table (no statement of the try body
\* raises), the rows of the table are exactly the data rows with content.
BuiltTableRows ==
    \A i \in CallIds :
        (calls[i].fn = "load_sheet" /\ Normalized(calls[i])) =>
            LET t == calls[i].ret[1]
            IN  /\ \A k \in 1..Len(t.rows) : ~AllNull(t.rows[k].cells)
                /\ {t.rows[k].label : k \in 1..Len(t.rows)} = RowsWithContent(calls[i])

\* a grid cell as a table cell: "" is null; a cell past the row's end is ""
\* in a window of load_vendidos_tables and null in load_sheet
CellAt(row, j) == IF j <= Len(row) /\ row[j] # "" THEN Some(row[j]) ELSE None

\* the grid positions (1-based) under the columns of the k-th table of a call
PositionsOf(c, k) ==
    IF c.fn = "load_sheet" THEN KeptPositions(HeadersOf(c))
    ELSE LET start == IF k = 1 THEN V_START ELSE G_START
         IN  [j \in 1..Len(c.ret[k].columns) |-> start + j]

\* C11: the rows of every table a loader returns are data rows of the grid
\* (each row holds the cells of the data row it comes from), in increasing
\* grid order, none twice.
C11_RowOrderPreserved ==
    \A i \in CallIds : \A k \in 1..Len(calls[i].ret) :
        LET c == calls[i]
            t == c.ret[k]
        IN  /\ Len(t.rows) > 0 => Normalized(c)
            /\ \A a \in 1..Len(t.rows) :
                  /\ t.rows[a].label \in 0..(Len(DataOf(c)) - 1)
                  /\ a > 1 => t.rows[a - 1].label < t.rows[a].label
                  /\ \A j \in 1..Len(t.columns) :
                        t.rows[a].cells[j] =
                           CellAt(DataOf(c)[t.rows[a].label + 1], PositionsOf(c, k)[j])

\* both tables of the sample Vendidos sheet skip rows between kept ones
C11_Witness ==
    \E i \in CallIds :
        /\ calls[i].all_values = VendidosSampleGrid
        /\ LabelsOf(calls[i].ret[1]) = <<0, 3>>
        /\ LabelsOf(calls[i].ret[2]) = <<0, 1, 2>>

\* C12: no table returned by load_vendidos_tables has a column whose name is
\* empty or whitespace-only.
C12_VendidosNoBlankNames ==
    \A i \in CallIds :
        calls[i].fn = "load_vendidos_tables" =>
            \A t \in TablesOf(calls[i]) :
                \A j \in 1..Len(t.columns) : Strip(t.columns[j]) # ""

\* the cell of a grid row at a 1-based position, "" past the row's end
CellOr(row, j) == IF j <= Len(row) THEN row[j] ELSE ""

LeftKey(row) == CellOr(row, V_START + 1)

RightKey(row) == CellOr(row, G_START + 1)

IsTotal(text) == Lower(Strip(text)) = "total"

\* the 0-based data rows the sales filter is said to keep
KeptLeft(c) ==
    {r \in 0..(Len(DataOf(c)) - 1) :
        Strip(LeftKey(DataOf(c)[r + 1])) # "" /\ ~IsTotal(LeftKey(DataOf(c)[r + 1]))}

\* the 0-based data rows the expenses filter is said to keep
KeptRight(c) ==
    {r \in 0..(Len(DataOf(c)) - 1) : Strip(RightKey(DataOf(c)[r + 1])) # ""}

LabelSet(t) == {t.rows[a].label : a \in 1..Len(t.rows)}

VendidosFetched(c) ==
    c.fn = "load_vendidos_tables" /\ c.outcome = "ok" /\ c.header_idx >= 0

\* the header row reaches the end of the expenses window
CoversWindows(c) == Len(HeadersOf(c)) >= G_STOP

\* C13: for a sheet whose header row spans both windows, the sales table
\* keeps exactly the data rows whose first sales cell is not blank and is
\* not 'total' (case and surrounding whitespace ignored); the expenses table
\* keeps exactly the data rows whose first expenses cell is not blank.
C13_DualRowFilters ==
    \A i \in CallIds :
        (VendidosFetched(calls[i]) /\ CoversWindows(calls[i])) =>
            /\ LabelSet(calls[i].ret[1]) = KeptLeft(calls[i])
            /\ LabelSet(calls[i].ret[2]) = KeptRight(calls[i])

\* Whenever load_vendidos_tables builds its tables and the first header cell
\* of a window is not blank, that window's table keeps exactly the rows of
\* its filter.
BuiltVendidosFilters ==
    \A i \in CallIds :
        (VendidosFetched(calls[i]) /\ Normalized(calls[i])) =>
            /\ Strip(LeftKey(HeadersOf(calls[i]))) # "" =>
                  LabelSet(calls[i].ret[1]) = KeptLeft(calls[i])
            /\ Strip(RightKey(HeadersOf(calls[i]))) # "" =>
                  LabelSet(calls[i].ret[2]) = KeptRight(calls[i])

SameWindow(r1, r2, start, stop) ==
    \A j \in (start + 1)..stop : CellOr(r1, j) = CellOr(r2, j)

\* C14: under a given header row, whether a data row is in the expenses
\* table depends only on its cells in columns 13-20, and whether it is in
\* the sales table only on its cells in columns 1-8: replacing the row by
\* one that agrees with it on a window leaves its presence in that window's
\* table unchanged.  A row the sales filter drops as 'Total' is in the
\* expenses table whenever its first expenses cell is not blank.
C14_FiltersIndependent ==
    \A i \in CallIds :
        VendidosFetched(calls[i]) =>
            \A d \in 1..Len(DataOf(calls[i])) :
                LET c == calls[i]
                    row == DataOf(c)[d]
                    at == c.header_idx + 1 + d
                IN  /\ \A other \in VendidosRows :
                          (\/ SameWindow(row, other, G_START, G_STOP)
                           \/ SameWindow(row, other, V_START, V_STOP)) =>
                            \A r2 \in {LoadVendidosTables("ok",
                                            [c.all_values EXCEPT ![at] = other])} :
                              r2.header_idx = c.header_idx =>
                                /\ SameWindow(row, other, G_START, G_STOP) =>
                                      ((d - 1) \in LabelSet(c.ret[2])
                                          <=> (d - 1) \in LabelSet(r2.ret[2]))
                                /\ SameWindow(row, other, V_START, V_STOP) =>
                                      ((d - 1) \in LabelSet(c.ret[1])
                                          <=> (d - 1) \in LabelSet(r2.ret[1]))
                    /\ (/\ Normalized(c)
                         /\ IsTotal(LeftKey(row))
                         /\ (d - 1) \notin LabelSet(c.ret[1])
                         /\ Strip(RightKey(row)) # "") =>
                            (d - 1) \in LabelSet(c.ret[2])

\* a 'total' sales row with an expense beside it: out of the sales table,
\* in the expenses table, under the sheet's usual header
C14_Witness ==
    \E i \in CallIds :
        /\ VendidosFetched(calls[i]) /\ Normalized(calls[i])
        /\ HeadersOf(calls[i]) = Wide(VendidosHeaderLeft, VendidosHeaderRight)
        /\ \E d \in 1..Len(DataOf(calls[i])) :
              /\ IsTotal(LeftKey(DataOf(calls[i])[d]))
              /\ RightKey(DataOf(calls[i])[d]) = "Flete"
              /\ (d - 1) \notin LabelSet(calls[i].ret[1])
              /\ (d - 1) \in LabelSet(calls[i].ret[2])

\* the names of a window of the header row, trimmed
WindowNames(c, start, stop) ==
    [k \in 1..(stop - start) |-> Strip(CellOr(HeadersOf(c), start + k))]

Occurrences(names, n) == {k \in 1..Len(names) : names[k] = n}

\* C15: a name that occurs once among the headers of columns 1-8 and once
\* among those of columns 13-20 is the name of its column, unsuffixed, in
\* both returned tables.
C15_DedupPerBlock ==
    \A i \in CallIds :
        (VendidosFetched(calls[i]) /\ Normalized(calls[i])) =>
            LET left == WindowNames(calls[i], V_START, V_STOP)
                right == WindowNames(calls[i], G_START, G_STOP)
            IN  \A a \in 1..Len(left), b \in 1..Len(right) :
                    (/\ left[a] = right[b]
                     /\ Occurrences(left, left[a]) = {a}
                     /\ Occurrences(right, right[b]) = {b}) =>
                        /\ calls[i].ret[1].columns[a] = left[a]
                        /\ calls[i].ret[2].columns[b] = right[b]

C15_Witness ==
    \E i \in CallIds :
        /\ VendidosFetched(calls[i]) /\ Normalized(calls[i])
        /\ HeadersOf(calls[i]) = Wide(VendidosHeaderLeft, VendidosHeaderRight)
        /\ calls[i].ret[1].columns = VendidosHeaderLeft
        /\ calls[i].ret[2].columns = VendidosHeaderRight
        /\ Len(calls[i].ret[1].rows) > 0 /\ Len(calls[i].ret[2].rows) > 0

-----------------------------------------------------------------------------
(* Claims about the rendering pass (Spec).                                 *)

\* the stage the script is at once the loader of the sheet has returned
StageAfter(sheet_name) ==
    CASE sheet_name = SheetVendidos -> "load_rentabilidad"
      [] sheet_name = SheetRentabilidad -> "load_pedidos"
      [] sheet_name = SheetPedidos -> "load_proveedores"
      [] OTHER -> "preprocess"

\* the sheet fetched at a stage
SheetAt(stage) ==
    CASE stage = "load_rentabilidad" -> SheetRentabilidad
      [] stage = "load_pedidos" -> SheetPedidos
      [] OTHER -> SheetProveedores

AfterLoading == {"preprocess", "render", "done", "crashed", "render_crashed"}

\* C5: a spreadsheet-not-found while load_sheet fetches halts the pass at
\* that call: the call returns no table, its variable stays unassigned, it
\* is the last loader call, and the script is halted (it never reaches
\* preprocessing, the sidebar or the tabs).
C5_SheetNotFoundHalts ==
    \A i \in CallIds :
        (calls[i].fn = "load_sheet" /\ calls[i].outcome = "SpreadsheetNotFound") =>
            /\ calls[i].ret = <<>>
            /\ df[TargetOf(calls[i].sheet)] = <<>>
            /\ i = Len(calls)
            /\ pc = "halted"
            /\ ~ENABLED Next

C5_Witness ==
    \E i \in CallIds :
        /\ calls[i].fn = "load_sheet"
        /\ calls[i].outcome = "SpreadsheetNotFound"
        /\ calls[i].sheet = SheetPedidos
        /\ pc = "halted"

\* C6: load_vendidos_tables halts the pass when the spreadsheet cannot be
\* found, as load_sheet does; it does not return a pair of empty tables.
C6_VendidosHaltsToo ==
    \A i \in CallIds :
        (calls[i].fn = "load_vendidos_tables"
            /\ calls[i].outcome = "SpreadsheetNotFound") =>
            /\ calls[i].ret = <<>>
            /\ pc = "halted"

\* C7: a pass in which every attempt to open the spreadsheet fails with
\* spreadsheet-not-found shows exactly one message before it halts.
C7_OneFatalMessage ==
    (/\ pc = "halted"
     /\ \A i \in CallIds : calls[i].outcome = "SpreadsheetNotFound") =>
        Len(notices) = 1

\* C8: a missing worksheet, or a fetch error other than spreadsheet-not-
\* found, makes load_sheet emit exactly one notice and return an empty table
\* to its caller; the pass is not halted, and the next loader of the script
\* is the next call (after the last loader, the script goes on).
C8_RecoverableEmpty ==
    \A i \in CallIds :
        (calls[i].fn = "load_sheet"
            /\ calls[i].outcome \in {"WorksheetNotFound", "Exception"}) =>
            /\ Len(calls[i].emitted) = 1
            /\ ~calls[i].stop
            /\ calls[i].ret = <<EmptyDF>>
            /\ IF i < Len(calls)
               THEN calls[i + 1].sheet = SheetAt(StageAfter(calls[i].sheet))
               ELSE /\ df[TargetOf(calls[i].sheet)] = <<EmptyDF>>
                    /\ IF calls[i].sheet = SheetProveedores
                       THEN pc \in AfterLoading
                       ELSE pc = StageAfter(calls[i].sheet) /\ ENABLED Next

C8_Witness ==
    \E i \in CallIds :
        /\ calls[i].fn = "load_sheet"
        /\ calls[i].outcome = "WorksheetNotFound"
        /\ calls[i].sheet = SheetRentabilidad
        /\ Len(calls) = i + 2
        /\ pc = "done"

-----------------------------------------------------------------------------
(* Claims about the value parsers (SpecParsers).                           *)

\* a decimal numeral: an optional sign, digits, at most one point
IsPlainNumeral(t) ==
    LET u == Unsigned(t)
    IN  /\ \A i \in 1..Len(u) : SubSeq(u, i, i) \in DigitSet \cup {"."}
        /\ Cardinality({i \in 1..Len(u) : SubSeq(u, i, i) = "."}) <= 1
        /\ \E i \in 1..Len(u) : SubSeq(u, i, i) \in DigitSet

\* the value of a decimal numeral
PlainValue(t) ==
    LET u == Unsigned(t)
        dot == FirstOf(u, {"."})
        places == IF dot = 0 THEN 0 ELSE Len(u) - dot
    IN  Norm(SignOf(t) * IntOf(RemoveChars(u, {"."}), 0), Pow10(places))

HasNoDigit(t) == \A i \in 1..Len(t) : SubSeq(t, i, i) \notin DigitSet

\* C16: _clean_currency never raises; it returns 0.0 for a null cell, for
\* the empty string and for text that is not a number, and otherwise the
\* number left once every '$', space and comma is removed.  A blank cell and
\* a cell holding 0 give the same value.
C16_CleanCurrency ==
    \A i \in CallIds :
        calls[i].fn = "_clean_currency" =>
            LET val == calls[i].val
                ret == calls[i].ret
            IN  /\ ret.kind # "error"
                /\ (val = None \/ val = Some("")) => ret = Zero
                /\ val # None =>
                      LET t == RemoveChars(val[1], {"$", " ", ","})
                      IN  /\ IsPlainNumeral(t) => ret = PlainValue(t)
                          /\ HasNoDigit(t) => ret = Zero
                /\ val = Some("$1,234.56") => ret = Norm(123456, 100)
                /\ val = Some("0") => ret = CleanCurrency(None)

\* a text without digits and without the words float() reads as values
Unparsable(t) ==
    HasNoDigit(t) /\ Lower(Unsigned(Strip(t))) \notin {"nan", "inf", "infinity"}

MonthTable ==
    << "enero", "febrero", "marzo", "abril", "mayo", "junio", "julio", "agosto",
       "septiembre", "octubre", "noviembre", "diciembre" >>

IsMonthYear(words) ==
    /\ Len(words) = 2
    /\ \E m \in 1..12 : Lower(words[1]) = MonthTable[m]
    /\ AllDigits(words[2]) /\ Len(words[2]) = 4

\* C18: a date cell of the form MONTH_NAME YEAR whose first word is a month
\* name of the table (letter case ignored) becomes day 1 of that month and
\* year; any other cell is parsed day first; a cell that is no date becomes
\* the null date.
C18_LocalizedDates ==
    \A i \in CallIds :
        calls[i].fn = "to_datetime" =>
            LET val == calls[i].val
                ret == calls[i].ret
                words == IF val = None THEN <<>> ELSE Split(val[1])
                parts == IF Len(words) = 1 THEN Pieces(words[1], {"/"}, "", <<>>)
                         ELSE <<>>
            IN  /\ IsMonthYear(words) =>
                      ret = Date(IntOf(words[2], 0),
                                 CHOOSE m \in 1..12 : Lower(words[1]) = MonthTable[m], 1)
                /\ (/\ Len(parts) = 3
                     /\ \A k \in 1..3 : AllDigits(parts[k])
                     /\ Len(parts[3]) = 4
                     /\ IsDate(IntOf(parts[3], 0), IntOf(parts[2], 0), IntOf(parts[1], 0))) =>
                        ret = Date(IntOf(parts[3], 0), IntOf(parts[2], 0), IntOf(parts[1], 0))
                /\ (val = None \/ val \in {Some("x"), Some("Total"), Some("31/02/2024")}) =>
                        ret = NaT

\* the positions of the column names that contain the wanted text, letter
\* case ignored
Matching(columns, col) ==
    {j \in 1..Len(columns) : HasMarker(<<columns[j]>>, col)}

\* C19: col_exists returns the first column name, in column order, that
\* contains the wanted text as a case-insensitive substring, and null when
\* none does; the columns are as they were.
C19_ColExistsFirstMatch ==
    \A i \in CallIds :
        calls[i].fn = "col_exists" =>
            LET hits == Matching(calls[i].columns, calls[i].col)
            IN  /\ hits = {} => calls[i].ret = None
                /\ hits # {} =>
                      \E j \in hits :
                          /\ \A k \in hits : j <= k
                          /\ calls[i].ret = Some(calls[i].columns[j])
                /\ (/\ calls[i].columns = <<"Precio Unitario (USD)", "Producto">>
                     /\ calls[i].col = "Precio Unitario") =>
                        calls[i].ret = Some("Precio Unitario (USD)")
                /\ calls[i].after = calls[i].columns

\* two columns match, in different letter case; the earlier one is returned
C19_Witness ==
    \E i \in CallIds :
        /\ calls[i].fn = "col_exists"
        /\ calls[i].columns = <<"Notas", "PRECIO unitario", "Precio Unitario (USD)">>
        /\ calls[i].col = "Precio Unitario"
        /\ calls[i].ret = Some("PRECIO unitario")

-----------------------------------------------------------------------------
(* Claims about the cache (SpecCache).                                     *)

LoaderCall(c) == c.fn \in {"load_sheet", "load_vendidos_tables"}

\* C20 as stated: whatever happens to the data source between passes, every
\* loader call returns with the cache the tables it returns with no cache.
C20_Original ==
    \A i \in CallIds :
        LoaderCall(calls[i]) => calls[i].ret = calls[i].fresh

\* C20 as amended: a loader call returns the tables it returns with no
\* cache when it is not served from the cache (no entry, an entry 60 s old
\* or older, the first calls after the refresh button) and when the data
\* source answers as it did when the entry was stored; a call served from
\* the cache has an entry younger than 60 s and returns the tables computed
\* from the answer of the data source at that time.
C20_CacheEquivalence ==
    \A i \in CallIds :
        LoaderCall(calls[i]) =>
            LET c == calls[i]
            IN  /\ ~c.hit => c.ret = c.fresh
                /\ c.hit =>
                      /\ c.now - c.at < TTL
                      /\ c.ret = Uncached(c.sheet, c.src).ret
                      /\ c.src = c.now_src => c.ret = c.fresh
                /\ c.now - c.at >= TTL => ~c.hit
                /\ calls[1].fn = "st.cache_data.clear" => ~c.hit

\* a call served from the cache although the sheet has changed since
C20_Witness ==
    \E i \in CallIds :
        /\ LoaderCall(calls[i])
        /\ calls[i].hit
        /\ calls[i].src # calls[i].now_src
        /\ calls[i].ret # calls[i].fresh
        /\ \E j \in CallIds : LoaderCall(calls[j]) /\ ~calls[j].hit

-----------------------------------------------------------------------------
(* Further claims about the loaders (SpecLoaders).                         *)

\* the rows of the grid with a cell that holds the call's marker
MarkerRows(c) ==
    {r \in 0..(Len(c.all_values) - 1) : HasMarker(c.all_values[r + 1], MarkerOf(c))}

\* the header row is the last row of the grid
HeaderIsLast(c) ==
    /\ Len(c.all_values) > 0
    /\ IF MarkerRows(c) = {} THEN Len(c.all_values) = 1
       ELSE \A r \in MarkerRows(c) : r = Len(c.all_values) - 1

\* C21: when the fetched grid is empty, and when its header row is its last
\* row, load_sheet returns a table without rows and load_vendidos_tables a
\* pair of tables without rows, and no notice is emitted.
C21_NoDataNoNotice ==
    \A i \in CallIds :
        (/\ calls[i].outcome = "ok"
         /\ Len(calls[i].all_values) = 0 \/ HeaderIsLast(calls[i])) =>
            /\ calls[i].emitted = <<>>
            /\ ~calls[i].stop
            /\ Len(calls[i].ret) = IF calls[i].fn = "load_sheet" THEN 1 ELSE 2
            /\ \A t \in TablesOf(calls[i]) : t = EmptyDF

\* a Vendidos grid that ends with its header row, below another row
C21_Witness ==
    \E i \in CallIds :
        /\ calls[i].fn = "load_vendidos_tables"
        /\ calls[i].outcome = "ok"
        /\ Len(calls[i].all_values) > 1
        /\ HeaderIsLast(calls[i])
        /\ calls[i].ret = <<EmptyDF, EmptyDF>>

-----------------------------------------------------------------------------
(* Further claims about the rendering pass (Spec).                         *)

Preprocessed == pc \in {"render", "done", "render_crashed"}

\* the table load_sheet returned for a sheet in this pass
LoadedFor(sheet_name) ==
    LET i == CHOOSE k \in CallIds : calls[k].sheet = sheet_name
    IN  calls[i].ret[1]

\* the rows of a table whose 'Producto' cell has text other than whitespace
HasProducto(t, k) ==
    \E j \in 1..Len(t.columns) :
        /\ t.columns[j] = "Producto"
        /\ t.rows[k].cells[j] # None
        /\ Strip(t.rows[k].cells[j][1]) # ""

\* the table cut to its first n columns
FirstColumns(t, n) ==
    [columns |-> SubSeq(t.columns, 1, n),
     rows    |-> [i \in 1..Len(t.rows) |->
                    [label |-> t.rows[i].label,
                     cells |-> SubSeq(t.rows[i].cells, 1, n)]]]

\* C22: once preprocessing is done, every row of df_rentabilidad and of
\* df_pedidos has a 'Producto' cell that is not null and not blank, and the
\* rows are those rows of the loaded table, in their order (in the columns
\* of the sheet: df_pedidos has gained its column _confirmado).
C22_ProductoKey ==
    Preprocessed =>
        \A sheet_name \in {SheetRentabilidad, SheetPedidos} :
            LET loaded == LoadedFor(sheet_name)
                t == df[TargetOf(sheet_name)][1]
                keep == {k \in 1..Len(loaded.rows) : HasProducto(loaded, k)}
            IN  /\ \A k \in 1..Len(t.rows) : HasProducto(t, k)
                /\ Len(t.columns) >= Len(loaded.columns)
                /\ FirstColumns(t, Len(loaded.columns)).columns = loaded.columns
                /\ FirstColumns(t, Len(loaded.columns)).rows = Pick(loaded.rows, keep, 1)

\* Pedidos was loaded with three rows, two of them without a product
C22_Witness ==
    /\ pc = "done"
    /\ Len(LoadedFor(SheetPedidos).rows) = 3
    /\ LabelsOf(df["df_pedidos"][1]) = <<0>>
    /\ Len(LoadedFor(SheetRentabilidad).rows) = 3
    /\ Len(df["df_rentabilidad"][1].rows) = 3

FetchOrder == <<SheetVendidos, SheetRentabilidad, SheetPedidos, SheetProveedores>>

LoadingStages ==
    <<"load_vendidos", "load_rentabilidad", "load_pedidos", "load_proveedores">>

\* C23: a pass without a fatal error fetches exactly four worksheets, in
\* the order Vendidos, Modelo Unitario de Rentabilidad, Pedidos,
\* proveedores, one after the other (the script is at the k-th load exactly
\* when k - 1 fetches have finished); Vendidos is fetched once and its
\* header row located once for its two tables.
C23_FetchOrder ==
    /\ Len(calls) <= Len(FetchOrder)
    /\ \A i \in CallIds :
          /\ calls[i].sheet = FetchOrder[i]
          /\ i < Len(calls) => ~calls[i].stop
          /\ calls[i].fn = IF i = 1 THEN "load_vendidos_tables" ELSE "load_sheet"
          /\ ~calls[i].stop => Len(calls[i].ret) = IF i = 1 THEN 2 ELSE 1
    /\ \A k \in 1..Len(LoadingStages) : pc = LoadingStages[k] => Len(calls) = k - 1
    /\ pc \in AfterLoading => Len(calls) = Len(FetchOrder)
    /\ pc = "halted" => Len(calls) > 0 /\ calls[Len(calls)].stop

C23_Witness ==
    /\ pc = "done"
    /\ Len(calls) = 4
    /\ \A i \in CallIds : calls[i].outcome = "ok"
    /\ calls[1].path = "normal"
    /\ Len(calls[1].ret[1].rows) > 0 /\ Len(calls[1].ret[2].rows) > 0

-----------------------------------------------------------------------------
(* Further claims about the loaders (SpecLoaders).                         *)

\* some name other than the blank one occurs twice in the window
HasRepeat(names) ==
    \E a, b \in 1..Len(names) : a # b /\ names[a] = names[b] /\ names[a] # ""

Suffixed(names, j) ==
    IF Earlier(names, j) = 0 THEN names[j]
    ELSE names[j] \o "_" \o ToString(Earlier(names, j))

\* C24: a header row with a repeated name in a window, be it the name of
\* the window's first column, does not send load_vendidos_tables down its
\* error path: the tables are returned, the repeated names suffixed (Name,
\* Name_1, ...) and the rows filtered as usual.
C24_RepeatedNamesInWindow ==
    \A i \in CallIds :
        LET c == calls[i]
            left == WindowNames(c, V_START, V_STOP)
            right == WindowNames(c, G_START, G_STOP)
        IN  (/\ VendidosFetched(c) /\ CoversWindows(c)
             /\ Len(DataOf(c)) > 0
             /\ left[1] # "" /\ right[1] # ""
             /\ HasRepeat(left) \/ HasRepeat(right)) =>
                /\ c.path = "normal"
                /\ c.emitted = <<>>
                /\ \A j \in 1..Len(left) :
                      left[j] # "" => c.ret[1].columns[j] = Suffixed(left, j)
                /\ \A j \in 1..Len(right) :
                      right[j] # "" => c.ret[2].columns[j] = Suffixed(right, j)
                /\ LabelSet(c.ret[1]) = KeptLeft(c)
                /\ LabelSet(c.ret[2]) = KeptRight(c)

\* C25: load_sheet drops exactly the columns under an empty or
\* whitespace-only header cell, cells included, before it renames: the
\* columns left are those under the other header cells, in order, named by
\* the trimmed cell, with suffixes that count only the columns left.
C25_BlankColumnsDropped ==
    \A i \in CallIds :
        (calls[i].fn = "load_sheet" /\ Normalized(calls[i])) =>
            LET c == calls[i]
                h == HeadersOf(c)
                t == c.ret[1]
                nonblank == {j \in 1..Len(h) : Strip(h[j]) # ""}
                pos == KeptPositions(h)
                names == [p \in 1..Len(pos) |-> Strip(h[pos[p]])]
            IN  /\ Len(t.columns) = Cardinality(nonblank)
                /\ Len(pos) = Len(t.columns)
                /\ \A p \in 1..Len(pos) :
                      /\ pos[p] \in nonblank
                      /\ p > 1 => pos[p - 1] < pos[p]
                      /\ t.columns[p] = Suffixed(names, p)
                      /\ \A a \in 1..Len(t.rows) :
                            t.rows[a].cells[p] =
                               CellAt(DataOf(c)[t.rows[a].label + 1], pos[p])

\* a blank header between two equal names: the second becomes Name_1
C25_Witness ==
    \E i \in CallIds :
        /\ calls[i].fn = "load_sheet" /\ Normalized(calls[i])
        /\ HeadersOf(calls[i]) = <<" A", "", "A ">>
        /\ calls[i].ret[1].columns = <<"A", "A_1">>
        /\ \E a \in 1..Len(calls[i].ret[1].rows) :
              calls[i].ret[1].rows[a].cells = <<Some("Widget"), Some("B")>>

\* a fetch that raised inside load_vendidos_tables
FetchFailed(c) ==
    c.outcome \in {"WorksheetNotFound", "SpreadsheetNotFound", "Exception"}

OneVendidosError == <<Notice("error", "load_vendidos_tables", "exception")>>

\* C28: load_vendidos_tables is all-or-nothing.  When the fetch raises, or
\* the header row is too short to cover both windows of a sheet with data
\* rows, it emits one error and returns two empty tables; and no call emits
\* a notice and also returns a table with columns or rows.
C28_AllOrNothing ==
    \A i \in CallIds :
        LET c == calls[i]
        IN  c.fn = "load_vendidos_tables" =>
              /\ (\/ FetchFailed(c)
                  \/ VendidosFetched(c) /\ Len(DataOf(c)) > 0 /\ ~CoversWindows(c)) =>
                    /\ c.emitted = OneVendidosError
                    /\ c.ret = <<EmptyDF, EmptyDF>>
                    /\ ~c.stop
              /\ Len(c.emitted) <= 1
              /\ c.emitted # <<>> => \A t \in TablesOf(c) : t = EmptyDF
              /\ (VendidosFetched(c) /\ c.emitted = <<>>) => c.path # "build_exception"

\* the sales window is built, the expenses window is cut short: no table
C28_Witness ==
    \E i \in CallIds :
        LET c == calls[i]
        IN  /\ VendidosFetched(c)
            /\ Len(HeadersOf(c)) >= V_STOP /\ ~CoversWindows(c)
            /\ \E r \in 1..Len(DataOf(c)) : Strip(LeftKey(DataOf(c)[r])) # ""
            /\ c.emitted = OneVendidosError
            /\ c.ret = <<EmptyDF, EmptyDF>>

-----------------------------------------------------------------------------
(* Further claims about the rendering pass (Spec).                         *)

\* C27: when load_sheet returned a non-empty table for 'Modelo Unitario de
\* Rentabilidad' or for 'Pedidos', the preprocessing of the pass does not
\* end in an unhandled exception, also when the table has no column named
\* exactly 'Producto'.
C27_PreprocessCompletes ==
    \A sheet_name \in {SheetRentabilidad, SheetPedidos} :
        (/\ pc \in AfterLoading \ {"preprocess"}
         /\ ~IsEmptyDF(LoadedFor(sheet_name))) =>
            pc \in {"render", "done", "render_crashed"}

-----------------------------------------------------------------------------
(* Claims about the sidebar filters and the tabs (SpecTabs).               *)

Rendered == page # <<>>

\* the labels of the rows of a frame a tab bound (none when it bound none)
Shown(frame) == IF frame = <<>> THEN {} ELSE LabelSet(frame[1])

\* every row of the frame is a row of the table, cells and all
RowsFrom(frame, t) ==
    frame # <<>> =>
        /\ frame[1].columns = t.columns
        /\ \A a \in 1..Len(frame[1].rows) :
              \E b \in 1..Len(t.rows) : frame[1].rows[a] = t.rows[b]

\* C26: the sidebar filters and the display formatting of the tabs leave
\* df_rentabilidad, df_pedidos and df_proveedores as preprocessing left
\* them: the filtered frames hold rows of the loaded tables, and after the
\* tabs the loaded tables have the rows and values they had before.
C26_BaseTablesUnchanged ==
    Rendered =>
        /\ \A n \in BaseNames : df[n] = <<page[1].before[n]>>
        /\ RowsFrom(page[1].df_r, df["df_rentabilidad"][1])
        /\ RowsFrom(page[1].df_c, df["df_rentabilidad"][1])
        /\ RowsFrom(page[1].df_p, df["df_pedidos"][1])
        /\ RowsFrom(page[1].df_pv, df["df_proveedores"][1])

\* no filter is set, every tab has run, and the tables shown are formatted
C26_Witness ==
    /\ pc = "done"
    /\ page[1].widgets.sel_productos = {} /\ page[1].widgets.sel_metodos = {}
    /\ page[1].widgets.estado_filtro = "Todos"
    /\ page[1].df_r = df["df_rentabilidad"]
    /\ page[1].df_display # <<>> /\ page[1].df_display # page[1].df_r
    /\ page[1].df_cost_display # <<>> /\ page[1].df_cost_display # page[1].df_c
    /\ page[1].df_tabla # <<>> /\ InColumns(page[1].df_tabla[1], "Estado")
    /\ ~InColumns(df["df_pedidos"][1], "Estado")

\* the cell of the confirmation column in a row: the first column whose
\* name holds 'pedido confirmado', letter case ignored
ConfirmationColumns(t) ==
    {j \in 1..Len(t.columns) : Contains(Lower(t.columns[j]), "pedido confirmado")}

SaysConfirmed(t, i) ==
    /\ ConfirmationColumns(t) # {}
    /\ LET j == CHOOSE k \in ConfirmationColumns(t) :
                    \A m \in ConfirmationColumns(t) : k <= m
       IN  /\ t.rows[i].cells[j] # None
           /\ Upper(Strip(t.rows[i].cells[j][1])) \in
                  {"SI", "SÍ", "YES", "TRUE", "VERDADERO", "1"}

\* C29: _confirmado is true exactly for the rows whose confirmation cell,
\* trimmed and upper-cased, is SI, SÍ, YES, TRUE, VERDADERO or 1 (for no row
\* when the column is missing); under the same product selection the rows
\* shown under 'Confirmados' and under 'Pendientes' are disjoint and make up
\* the rows shown under 'Todos'; and the KPIs of tab 4 count the rows shown,
\* with confirmados + pendientes = total_pedidos.
C29_OrderStatus ==
    (Rendered /\ ~IsEmptyDF(page[1].before["df_pedidos"])) =>
        LET t == page[1].before["df_pedidos"]
            w == page[1].widgets
            under(estado) ==
                LabelSet(FilterPedidos(Frame("", t), estado, w.sel_prod_ped).t)
        IN  /\ IsSingleColumn(t, "_confirmado")
            /\ \A i \in 1..Len(t.rows) :
                  IsTrue(Column(t, "_confirmado")[i]) <=> SaysConfirmed(t, i)
            /\ under("Confirmados") \cap under("Pendientes") = {}
            /\ under("Confirmados") \cup under("Pendientes") = under("Todos")
            /\ page[1].df_p # <<>> =>
                  /\ Shown(page[1].df_p) = under(w.estado_filtro)
                  /\ w.estado_filtro = "Confirmados" =>
                        \A i \in 1..Len(page[1].df_p[1].rows) :
                            SaysConfirmed(page[1].df_p[1], i)
                  /\ w.estado_filtro = "Pendientes" =>
                        \A i \in 1..Len(page[1].df_p[1].rows) :
                            ~SaysConfirmed(page[1].df_p[1], i)
                  /\ page[1].kpis # <<>>
                  /\ page[1].kpis[1].total_pedidos = Len(page[1].df_p[1].rows)
                  /\ page[1].kpis[1].confirmados =
                        Cardinality({i \in 1..Len(page[1].df_p[1].rows) :
                                        SaysConfirmed(page[1].df_p[1], i)})
                  /\ page[1].kpis[1].confirmados + page[1].kpis[1].pendientes
                        = page[1].kpis[1].total_pedidos

\* 'Confirmados' shows the order answered ' sí ' and the one answered 'TRUE'
C29_Witness ==
    /\ pc = "done"
    /\ page[1].widgets.estado_filtro = "Confirmados"
    /\ page[1].widgets.sel_prod_ped = {}
    /\ Len(page[1].before["df_pedidos"].rows) = 4
    /\ Shown(page[1].df_p) = {0, 3}
    /\ page[1].kpis = <<[total_pedidos |-> 2, confirmados |-> 2, pendientes |-> 0]>>

\* row i of the table passes a multiselect filter on the column
Selected(t, i, name, sel) ==
    sel = {} \/ ~InColumns(t, name)
        \/ (Column(t, name)[i] # None /\ Column(t, name)[i][1] \in sel)

NullIn(t, i, name) == InColumns(t, name) /\ Column(t, name)[i] = None

PassesEstado(t, i, estado) ==
    CASE estado = "Confirmados" -> SaysConfirmed(t, i)
      [] estado = "Pendientes" -> ~SaysConfirmed(t, i)
      [] OTHER -> TRUE

PassesSearch(t, i, text) ==
    text = "" \/ Contains(Lower(Joined(t.rows[i].cells)), Lower(text))

LabelsWhere(t, keep) == {t.rows[i].label : i \in keep}

\* C30 as stated: under an empty selection the filtered table of a tab has
\* the rows it has when every available value is selected.
C30_Original ==
    Rendered =>
        LET w == page[1].widgets
            r == page[1].before["df_rentabilidad"]
            p == page[1].before["df_pedidos"]
            s == page[1].before["df_proveedores"]
            all_productos == Range(productos_list(r))
            all_metodos == Range(metodos_list(r))
            all_prod_ped == Range(prod_ped_list(p))
            all_tipos == Range(tipos_prov_list(s))
        IN  /\ \A frame \in {page[1].df_r, page[1].df_c} :
                  frame # <<>> =>
                    /\ w.sel_productos = {} =>
                          Shown(frame) = LabelSet(FilterRentabilidad(
                              Frame("", r), all_productos, w.sel_metodos).t)
                    /\ w.sel_metodos = {} =>
                          Shown(frame) = LabelSet(FilterRentabilidad(
                              Frame("", r), w.sel_productos, all_metodos).t)
            /\ (page[1].df_p # <<>> /\ w.sel_prod_ped = {}) =>
                  Shown(page[1].df_p) = LabelSet(FilterPedidos(
                      Frame("", p), w.estado_filtro, all_prod_ped).t)
            /\ (page[1].df_pv # <<>> /\ w.sel_tipo_prov = {}) =>
                  Shown(page[1].df_pv) = LabelSet(FilterProveedores(
                      Frame("", s), w.busqueda_prov, all_tipos).t)

\* C30, amended: under an empty selection the filtered table of a tab has
\* every row that passes the other filters, which are the rows it has when
\* every available value is selected and the rows whose cell in the filtered
\* column is null; a product cell is never null, so for the two product
\* selections these are the rows of the full selection.
C30_EmptySelection ==
    Rendered =>
        LET w == page[1].widgets
            r == page[1].before["df_rentabilidad"]
            p == page[1].before["df_pedidos"]
            s == page[1].before["df_proveedores"]
            all_productos == Range(productos_list(r))
            all_metodos == Range(metodos_list(r))
            all_prod_ped == Range(prod_ped_list(p))
            all_tipos == Range(tipos_prov_list(s))
        IN  /\ \A frame \in {page[1].df_r, page[1].df_c} :
                  frame # <<>> =>
                    /\ w.sel_productos = {} =>
                          /\ Shown(frame) = LabelsWhere(r, {i \in 1..Len(r.rows) :
                                  Selected(r, i, COL_R_METODO(r), w.sel_metodos)})
                          /\ Shown(frame) = LabelSet(FilterRentabilidad(
                                  Frame("", r), all_productos, w.sel_metodos).t)
                    /\ w.sel_metodos = {} =>
                          /\ Shown(frame) = LabelsWhere(r, {i \in 1..Len(r.rows) :
                                  Selected(r, i, COL_R_PRODUCTO, w.sel_productos)})
                          /\ Shown(frame) =
                                LabelSet(FilterRentabilidad(
                                    Frame("", r), w.sel_productos, all_metodos).t)
                                \cup LabelsWhere(r, {i \in 1..Len(r.rows) :
                                    /\ Selected(r, i, COL_R_PRODUCTO, w.sel_productos)
                                    /\ NullIn(r, i, COL_R_METODO(r))})
            /\ (page[1].df_p # <<>> /\ w.sel_prod_ped = {}) =>
                  /\ Shown(page[1].df_p) = LabelsWhere(p, {i \in 1..Len(p.rows) :
                          PassesEstado(p, i, w.estado_filtro)})
                  /\ Shown(page[1].df_p) = LabelSet(FilterPedidos(
                          Frame("", p), w.estado_filtro, all_prod_ped).t)
            /\ (page[1].df_pv # <<>> /\ w.sel_tipo_prov = {}) =>
                  /\ Shown(page[1].df_pv) = LabelsWhere(s, {i \in 1..Len(s.rows) :
                          PassesSearch(s, i, w.busqueda_prov)})
                  /\ Shown(page[1].df_pv) =
                        LabelSet(FilterProveedores(
                            Frame("", s), w.busqueda_prov, all_tipos).t)
                        \cup LabelsWhere(s, {i \in 1..Len(s.rows) :
                            /\ PassesSearch(s, i, w.busqueda_prov)
                            /\ NullIn(s, i, "Tipo de proveedor")})

\* every selection is empty and every row of the three tables is shown, the
\* row without a channel and the row without a supplier type among them
C30_Witness ==
    /\ pc = "done"
    /\ page[1].widgets.sel_productos = {} /\ page[1].widgets.sel_metodos = {}
    /\ page[1].widgets.sel_prod_ped = {} /\ page[1].widgets.sel_tipo_prov = {}
    /\ page[1].widgets.estado_filtro = "Todos"
    /\ page[1].widgets.busqueda_prov = ""
    /\ Shown(page[1].df_r) = {0, 1, 2} /\ Shown(page[1].df_c) = {0, 1, 2}
    /\ Shown(page[1].df_p) = {0, 1, 2, 3}
    /\ Shown(page[1].df_pv) = {0, 1, 2}
    /\ \E i \in 1..3 : NullIn(df["df_rentabilidad"][1], i, "Método de venta")
    /\ \E i \in 1..3 : NullIn(df["df_proveedores"][1], i, "Tipo de proveedor")

=============================================================================
